---- MODULE Spec2Model ----
(***************************************************************************)
(* ApiCharge nanosubscription client: the four-step purchase of an access  *)
(* token (purchase_access_token) and the metered call that follows it.     *)
(*                                                                         *)
(* Text is a sequence of one-character strings, bytes are a sequence of    *)
(* numbers 0..255.  A JSON value is a record [t, s, m]: t is "str", "obj"  *)
(* or "null", s the text of a string, m the members of an object in        *)
(* insertion order, each [k |-> text, v |-> value] (a Python dict).        *)
(***************************************************************************)
EXTENDS Integers, Sequences, FiniteSets, TLC

\* Longest authorisationToSign the server answers with.
MaxAuthLen == 4

\* Longest signableEntity.signature the server answers with.
MaxSigLen == 4

(***************************************************************************)
(* Characters                                                              *)
(***************************************************************************)

\* The printable ASCII characters, code 32 (space) to 126 (~); the entry of
\* code 96, which no text of the model contains, is spelled out.
Ascii ==
  << " ", "!", "\"", "#", "$", "%", "&", "'", "(", ")", "*", "+", ",", "-", ".", "/",
     "0", "1", "2", "3", "4", "5", "6", "7", "8", "9", ":", ";", "<", "=", ">", "?",
     "@", "A", "B", "C", "D", "E", "F", "G", "H", "I", "J", "K", "L", "M", "N", "O",
     "P", "Q", "R", "S", "T", "U", "V", "W", "X", "Y", "Z", "[", "\\", "]", "^", "_",
     "GRAVE", "a", "b", "c", "d", "e", "f", "g", "h", "i", "j", "k", "l", "m", "n", "o",
     "p", "q", "r", "s", "t", "u", "v", "w", "x", "y", "z", "{", "|", "}", "~" >>

AsciiChars == {Ascii[i] : i \in 1..Len(Ascii)}

OrdTable == [c \in AsciiChars |-> 31 + (CHOOSE i \in 1..Len(Ascii) : Ascii[i] = c)]

Ord(c) == OrdTable[c]

Chr(n) == Ascii[n - 31]

IsDigit(c) == Ord(c) >= 48 /\ Ord(c) <= 57

IsUpper(c) == Ord(c) >= 65 /\ Ord(c) <= 90

IsLower(c) == Ord(c) >= 97 /\ Ord(c) <= 122

\* Every text of at most n characters drawn from the set chars.
StringsOver(chars, n) == UNION {[1..k -> chars] : k \in 0..n}

(***************************************************************************)
(* base64.b64decode / base64.b64encode (validate=False: characters outside *)
(* the alphabet are discarded, a complete pad sequence ends the input, and *)
(* leftover data characters are an error)                                  *)
(***************************************************************************)

IsB64Char(c) == IsDigit(c) \/ IsUpper(c) \/ IsLower(c) \/ c = "+" \/ c = "/"

B64Val(c) ==
  IF IsUpper(c) THEN Ord(c) - 65
  ELSE IF IsLower(c) THEN Ord(c) - 71
  ELSE IF IsDigit(c) THEN Ord(c) + 4
  ELSE IF c = "+" THEN 62 ELSE 63

B64Chr(v) ==
  IF v < 26 THEN Chr(v + 65)
  ELSE IF v < 52 THEN Chr(v + 71)
  ELSE IF v < 62 THEN Chr(v - 4)
  ELSE IF v = 62 THEN "+" ELSE "/"

\* The decoder's loop from character i on: quad is the position in the
\* current group of four, left the bits carried over, pads the pad
\* characters seen since the last data character, out the bytes so far.
RECURSIVE A2bBase64(_, _, _, _, _, _)
A2bBase64(s, i, quad, left, pads, out) ==
  IF i > Len(s)
  THEN [ok |-> quad = 0, bytes |-> IF quad = 0 THEN out ELSE <<>>]
  ELSE LET c == s[i] IN
    IF c = "="
    THEN IF quad >= 2 /\ quad + pads + 1 >= 4
         THEN [ok |-> TRUE, bytes |-> out]
         ELSE A2bBase64(s, i + 1, quad, left, IF quad >= 2 THEN pads + 1 ELSE pads, out)
    ELSE IF ~IsB64Char(c)
    THEN A2bBase64(s, i + 1, quad, left, pads, out)
    ELSE LET v == B64Val(c) IN
      IF quad = 0 THEN A2bBase64(s, i + 1, 1, v, 0, out)
      ELSE IF quad = 1
      THEN A2bBase64(s, i + 1, 2, v % 16, 0, Append(out, left * 4 + v \div 16))
      ELSE IF quad = 2
      THEN A2bBase64(s, i + 1, 3, v % 4, 0, Append(out, left * 16 + v \div 4))
      ELSE A2bBase64(s, i + 1, 0, 0, 0, Append(out, left * 64 + v))

\* [ok, bytes]: ok is FALSE where b64decode raises.
B64Decode(s) == A2bBase64(s, 1, 0, 0, 0, <<>>)

RECURSIVE B64Encode(_)
B64Encode(b) ==
  IF Len(b) = 0 THEN <<>>
  ELSE IF Len(b) = 1
  THEN << B64Chr(b[1] \div 4), B64Chr((b[1] % 4) * 16), "=", "=" >>
  ELSE IF Len(b) = 2
  THEN << B64Chr(b[1] \div 4), B64Chr((b[1] % 4) * 16 + b[2] \div 16),
          B64Chr((b[2] % 16) * 4), "=" >>
  ELSE << B64Chr(b[1] \div 4), B64Chr((b[1] % 4) * 16 + b[2] \div 16),
          B64Chr((b[2] % 16) * 4 + b[3] \div 64), B64Chr(b[3] % 64) >>
       \o B64Encode(SubSeq(b, 4, Len(b)))

\* _is_base64: TRUE unless b64decode raises.
IsBase64(s) == B64Decode(s).ok

(***************************************************************************)
(* bytes.fromhex: ASCII whitespace is skipped before each pair of hex      *)
(* digits, anything else raises                                            *)
(***************************************************************************)

IsHexDigit(c) ==
  IsDigit(c) \/ (Ord(c) >= 97 /\ Ord(c) <= 102) \/ (Ord(c) >= 65 /\ Ord(c) <= 70)

HexVal(c) ==
  IF IsDigit(c) THEN Ord(c) - 48
  ELSE IF IsLower(c) THEN Ord(c) - 87 ELSE Ord(c) - 55

RECURSIVE FromHexAt(_, _, _)
FromHexAt(s, i, out) ==
  IF i > Len(s) THEN [ok |-> TRUE, bytes |-> out]
  ELSE IF s[i] = " " THEN FromHexAt(s, i + 1, out)
  ELSE IF i + 1 > Len(s) \/ ~IsHexDigit(s[i]) \/ ~IsHexDigit(s[i + 1])
  THEN [ok |-> FALSE, bytes |-> <<>>]
  ELSE FromHexAt(s, i + 2, Append(out, HexVal(s[i]) * 16 + HexVal(s[i + 1])))

\* [ok, bytes]: ok is FALSE where bytes.fromhex raises.
FromHex(s) == FromHexAt(s, 1, <<>>)

(***************************************************************************)
(* JSON values, json.dumps(separators=(',', ':')) and                      *)
(* urllib.parse.quote(safe='')                                             *)
(***************************************************************************)

JStr(s) == [t |-> "str", s |-> s, m |-> <<>>, n |-> 0]

JObj(m) == [t |-> "obj", s |-> <<>>, m |-> m, n |-> 0]

JNum(n) == [t |-> "num", s |-> <<>>, m |-> <<>>, n |-> n]

JNull == [t |-> "null", s |-> <<>>, m |-> <<>>, n |-> 0]

\* A list: m holds its items.
JArr(items) == [t |-> "arr", s |-> <<>>, m |-> items, n |-> 0]

Member(k, v) == [k |-> k, v |-> v]

HasKey(o, k) == \E i \in 1..Len(o.m) : o.m[i].k = k

\* dict.get(k, default)
Get(o, k, default) ==
  IF HasKey(o, k) THEN o.m[CHOOSE i \in 1..Len(o.m) : o.m[i].k = k].v ELSE default

\* dict[k] = v: an existing key keeps its place, a new key goes last.
Put(o, k, v) ==
  IF HasKey(o, k)
  THEN JObj([i \in 1..Len(o.m) |-> IF o.m[i].k = k THEN Member(k, v) ELSE o.m[i]])
  ELSE JObj(Append(o.m, Member(k, v)))

\* Mutant: a test for None in place of the truth value.
TruthyUnlessNull(v) == v.t # "null"

\* Python truth value of a JSON value.
Truthy(v) ==
  IF v.t = "str" THEN v.s # <<>>
  ELSE IF v.t \in {"obj", "arr"} THEN v.m # <<>>
  ELSE IF v.t = "num" THEN v.n # 0 ELSE FALSE

RECURSIVE Digits(_)
Digits(n) == IF n < 10 THEN << Chr(48 + n) >> ELSE Digits(n \div 10) \o << Chr(48 + (n % 10)) >>

EscapeChar(c) == IF c = "\"" \/ c = "\\" THEN << "\\", c >> ELSE << c >>

\* The escaped characters lo..hi of s, one after the other.
RECURSIVE EscapeRange(_, _, _)
EscapeRange(s, lo, hi) ==
  IF lo > hi THEN <<>>
  ELSE IF lo = hi THEN EscapeChar(s[lo])
  ELSE EscapeRange(s, lo, (lo + hi) \div 2) \o EscapeRange(s, (lo + hi) \div 2 + 1, hi)

EscapeText(s) == EscapeRange(s, 1, Len(s))

DumpsText(s) == << "\"" >> \o EscapeText(s) \o << "\"" >>

RECURSIVE Dumps(_)
RECURSIVE DumpsMembers(_, _)
RECURSIVE DumpsItems(_, _)
DumpsItems(m, i) ==
  IF i > Len(m) THEN <<>>
  ELSE (IF i > 1 THEN << "," >> ELSE <<>>) \o Dumps(m[i]) \o DumpsItems(m, i + 1)

DumpsMembers(m, i) ==
  IF i > Len(m) THEN <<>>
  ELSE (IF i > 1 THEN << "," >> ELSE <<>>)
       \o DumpsText(m[i].k) \o << ":" >> \o Dumps(m[i].v) \o DumpsMembers(m, i + 1)

\* json.dumps with compact separators, ensure_ascii over printable ASCII.
Dumps(v) ==
  IF v.t = "str" THEN DumpsText(v.s)
  ELSE IF v.t = "num" THEN Digits(v.n)
  ELSE IF v.t = "null" THEN << "n", "u", "l", "l" >>
  ELSE IF v.t = "arr" THEN << "[" >> \o DumpsItems(v.m, 1) \o << "]" >>
  ELSE << "{" >> \o DumpsMembers(v.m, 1) \o << "}" >>

\* The characters quote never escapes: letters, digits and _ . - ~
IsUnreserved(c) ==
  IsDigit(c) \/ IsUpper(c) \/ IsLower(c) \/ c \in {"_", ".", "-", "~"}

HexDigitUpper(v) == IF v < 10 THEN Chr(48 + v) ELSE Chr(55 + v)

\* Mutant: the percent sign is left as it is.
QuoteCharPercentSafe(c) ==
  IF IsUnreserved(c) \/ c = "%" THEN << c >>
  ELSE << "%", HexDigitUpper(Ord(c) \div 16), HexDigitUpper(Ord(c) % 16) >>

QuoteChar(c) ==
  IF IsUnreserved(c) THEN << c >>
  ELSE << "%", HexDigitUpper(Ord(c) \div 16), HexDigitUpper(Ord(c) % 16) >>

RECURSIVE QuoteRange(_, _, _)
QuoteRange(s, lo, hi) ==
  IF lo > hi THEN <<>>
  ELSE IF lo = hi THEN QuoteChar(s[lo])
  ELSE QuoteRange(s, lo, (lo + hi) \div 2) \o QuoteRange(s, (lo + hi) \div 2 + 1, hi)

\* urllib.parse.quote(s, safe=''); the text is evaluated once.
Quote(s) == CHOOSE quoted \in {QuoteRange(text, 1, Len(text)) : text \in {s}} : TRUE

\* The inverses the properties decode a credential with: what the receiver
\* of the header does, urllib.parse.unquote and json.loads.
IsEscapeAt(s, i) ==
  /\ i >= 1 /\ i + 2 <= Len(s)
  /\ s[i] = "%" /\ IsHexDigit(s[i + 1]) /\ IsHexDigit(s[i + 2])
  /\ HexVal(s[i + 1]) * 16 + HexVal(s[i + 2]) \in 32..126

\* What position i of s contributes to the unquoted text.
UnquoteChar(s, i) ==
  IF IsEscapeAt(s, i) THEN << Chr(HexVal(s[i + 1]) * 16 + HexVal(s[i + 2])) >>
  ELSE IF IsEscapeAt(s, i - 1) \/ IsEscapeAt(s, i - 2) THEN <<>>
  ELSE << s[i] >>

RECURSIVE UnquoteRange(_, _, _)
UnquoteRange(s, lo, hi) ==
  IF lo > hi THEN <<>>
  ELSE IF lo = hi THEN UnquoteChar(s, lo)
  ELSE UnquoteRange(s, lo, (lo + hi) \div 2) \o UnquoteRange(s, (lo + hi) \div 2 + 1, hi)

Unquote(s) == UnquoteRange(s, 1, Len(s))

ParseFail == [ok |-> FALSE, v |-> JNull, next |-> 0]

\* The text of a JSON string whose opening quote is before position i.
RECURSIVE ParseText(_, _, _)
ParseText(s, i, out) ==
  IF i > Len(s) THEN [ok |-> FALSE, text |-> <<>>, next |-> 0]
  ELSE IF s[i] = "\"" THEN [ok |-> TRUE, text |-> out, next |-> i + 1]
  ELSE IF s[i] = "\\"
  THEN IF i + 1 <= Len(s) /\ s[i + 1] \in {"\"", "\\", "/"}
       THEN ParseText(s, i + 2, Append(out, s[i + 1]))
       ELSE [ok |-> FALSE, text |-> <<>>, next |-> 0]
  ELSE ParseText(s, i + 1, Append(out, s[i]))

RECURSIVE ParseNumber(_, _, _)
ParseNumber(s, i, n) ==
  IF i <= Len(s) /\ IsDigit(s[i]) THEN ParseNumber(s, i + 1, n * 10 + Ord(s[i]) - 48)
  ELSE [ok |-> TRUE, v |-> JNum(n), next |-> i]

RECURSIVE ParseValue(_, _)
RECURSIVE ParseMembers(_, _, _)
ParseMembers(s, i, acc) ==
  IF i > Len(s) \/ s[i] # "\"" THEN ParseFail
  ELSE LET k == ParseText(s, i + 1, <<>>) IN
    IF ~k.ok \/ k.next > Len(s) \/ s[k.next] # ":" THEN ParseFail
    ELSE LET v == ParseValue(s, k.next + 1) IN
      IF ~v.ok \/ v.next > Len(s) THEN ParseFail
      ELSE LET o == Put(JObj(acc), k.text, v.v).m IN
        IF s[v.next] = "}" THEN [ok |-> TRUE, v |-> JObj(o), next |-> v.next + 1]
        ELSE IF s[v.next] = "," THEN ParseMembers(s, v.next + 1, o)
        ELSE ParseFail

ParseValue(s, i) ==
  IF i > Len(s) THEN ParseFail
  ELSE IF s[i] = "\""
  THEN LET r == ParseText(s, i + 1, <<>>) IN
       IF r.ok THEN [ok |-> TRUE, v |-> JStr(r.text), next |-> r.next] ELSE ParseFail
  ELSE IF s[i] = "{"
  THEN IF i + 1 <= Len(s) /\ s[i + 1] = "}"
       THEN [ok |-> TRUE, v |-> JObj(<<>>), next |-> i + 2]
       ELSE ParseMembers(s, i + 1, <<>>)
  ELSE IF IsDigit(s[i]) THEN ParseNumber(s, i, 0)
  ELSE IF i + 3 <= Len(s) /\ SubSeq(s, i, i + 3) = << "n", "u", "l", "l" >>
  THEN [ok |-> TRUE, v |-> JNull, next |-> i + 4]
  ELSE ParseFail

\* json.loads of a whole text: [ok, v].
Loads(s) ==
  LET r == ParseValue(s, 1) IN IF r.ok /\ r.next = Len(s) + 1 THEN r ELSE ParseFail

(***************************************************************************)
(* Field names and keys                                                    *)
(***************************************************************************)

K_authorisationToSign == << "a", "u", "t", "h", "o", "r", "i", "s", "a", "t", "i", "o", "n", "T", "o", "S", "i", "g", "n" >>

K_signableEntity == << "s", "i", "g", "n", "a", "b", "l", "e", "E", "n", "t", "i", "t", "y" >>

K_signature == << "s", "i", "g", "n", "a", "t", "u", "r", "e" >>

K_clientPublicKey == << "c", "l", "i", "e", "n", "t", "P", "u", "b", "l", "i", "c", "K", "e", "y" >>

K_routeQuote == << "r", "o", "u", "t", "e", "Q", "u", "o", "t", "e" >>

K_routeId == << "r", "o", "u", "t", "e", "I", "d" >>

K_publicKey == << "p", "u", "b", "l", "i", "c", "K", "e", "y" >>

K_id == << "i", "d" >>

\* keypair.public_key of the payer and of the account being activated.
PayerSecret == << "S", "P", "A", "Y", "E", "R" >>

NewAccountSecret == << "S", "N", "E", "W" >>

\* Mutant: the secret seed is sent where the public key belongs.
PublicKeyIsSecret(secret) == secret

\* Keypair.from_secret(secret).public_key: the G... address of the S... seed.
PublicKey(secret) == << "G" >> \o Tail(secret)

PayerPublicKey == PublicKey(PayerSecret)

NewAccountPublicKey == PublicKey(NewAccountSecret)

\* The route the credential is bought for.
ActivateRouteId == << "s", "t", "a", "b", "l", "e", "c", "o", "i", "n", "-", "a", "c", "t", "i", "v", "a", "t", "e", "-", "a", "c", "c", "o", "u", "n", "t" >>

K_quotes == << "q", "u", "o", "t", "e", "s" >>

K_microUnitPrice == << "m", "i", "c", "r", "o", "U", "n", "i", "t", "P", "r", "i", "c", "e" >>

\* The routes the other flows look for in the catalog.
SubmitRouteId == << "s", "t", "a", "b", "l", "e", "c", "o", "i", "n", "-", "s", "u", "b", "m", "i", "t", "-", "c", "l", "a", "s", "s", "i", "c", "-", "t", "x" >>

StatusRouteId == << "s", "t", "a", "b", "l", "e", "c", "o", "i", "n", "-", "g", "e", "t", "-", "t", "x", "-", "s", "t", "a", "t", "u", "s" >>

RpcRouteId == << "s", "t", "e", "l", "l", "a", "r", "-", "r", "p", "c", "-", "d", "e", "v", "e", "l", "o", "p", "e", "r" >>

\* A quote of the catalog for a route, at a price.
RouteQuote(route_id, price) ==
  JObj(<< Member(K_signableEntity,
                 JObj(<< Member(K_routeId, JStr(route_id)),
                         Member(K_microUnitPrice, JNum(price)) >>)) >>)

\* The quote the activation is bought with where the catalog is not varied.
ActivateQuote == JObj(<< Member(K_signableEntity,
                                JObj(<< Member(K_routeId, JStr(ActivateRouteId)) >>)) >>)

(***************************************************************************)
(* find_quote_by_route_id                                                  *)
(***************************************************************************)

\* sub in text, for two str values.
IsSubstring(sub, text) ==
  \E i \in 0..(Len(text) - Len(sub)) : SubSeq(text, i + 1, i + Len(sub)) = sub

NotFound == [ok |-> TRUE, found |-> FALSE, quote |-> JNull]

Raised == [ok |-> FALSE, found |-> FALSE, quote |-> JNull]

\* route_id_substring in signable.get("routeId", ""): substring of a str,
\* item of a list, key of a dict; TypeError for None and numbers.
RouteIdTest(sub, route_id) ==
  IF route_id.t = "str" THEN [ok |-> TRUE, hit |-> IsSubstring(sub, route_id.s)]
  ELSE IF route_id.t = "arr"
  THEN [ok |-> TRUE, hit |-> \E i \in 1..Len(route_id.m) : route_id.m[i] = JStr(sub)]
  ELSE IF route_id.t = "obj" THEN [ok |-> TRUE, hit |-> HasKey(route_id, sub)]
  ELSE [ok |-> FALSE, hit |-> FALSE]

\* The loop over the list from item i on: the first quote that matches; an
\* item that is no dict, or whose signableEntity is no dict, raises.
RECURSIVE FindFrom(_, _, _)
FindFrom(items, i, sub) ==
  IF i > Len(items) THEN NotFound
  ELSE IF items[i].t # "obj" THEN Raised
  ELSE LET signable == Get(items[i], K_signableEntity, JObj(<<>>)) IN
    IF signable.t # "obj" THEN Raised
    ELSE LET test == RouteIdTest(sub, Get(signable, K_routeId, JStr(<<>>))) IN
      IF ~test.ok THEN Raised
      ELSE IF test.hit THEN [ok |-> TRUE, found |-> TRUE, quote |-> items[i]]
      ELSE FindFrom(items, i + 1, sub)

\* Mutant: the last quote that matches is returned.
RECURSIVE FindLastFrom(_, _, _)
FindLastFrom(items, i, sub) ==
  IF i < 1 THEN NotFound
  ELSE IF items[i].t # "obj" THEN Raised
  ELSE LET signable == Get(items[i], K_signableEntity, JObj(<<>>)) IN
    IF signable.t # "obj" THEN Raised
    ELSE LET test == RouteIdTest(sub, Get(signable, K_routeId, JStr(<<>>))) IN
      IF ~test.ok THEN Raised
      ELSE IF test.hit THEN [ok |-> TRUE, found |-> TRUE, quote |-> items[i]]
      ELSE FindLastFrom(items, i - 1, sub)

FindQuoteLast(catalog, sub) ==
  IF catalog.t # "obj" \/ Get(catalog, K_quotes, JArr(<<>>)).t # "arr" THEN Raised
  ELSE FindLastFrom(Get(catalog, K_quotes, JArr(<<>>)).m,
                    Len(Get(catalog, K_quotes, JArr(<<>>)).m), sub)

\* find_quote_by_route_id(quotes, route_id_substring): quotes.get("quotes",
\* []) is looped over; None and numbers are not iterable, the items of a
\* non-empty str or dict have no get.
FindQuoteByRouteId(catalog, sub) ==
  IF catalog.t # "obj" THEN Raised
  ELSE LET list == Get(catalog, K_quotes, JArr(<<>>)) IN
    IF list.t = "arr" THEN FindFrom(list.m, 1, sub)
    ELSE IF list.t \in {"str", "obj"} /\ ~Truthy(list) THEN NotFound
    ELSE Raised

(***************************************************************************)
(* The signer: keypair.sign(bytes). The signature is a function of the key *)
(* and of the message, here the key's tag followed by the message, so that *)
(* signatures of different keys or messages differ.                        *)
(***************************************************************************)

KeyTag(key) == IF key = "payer" THEN 1 ELSE 2

Sign(key, msg) == << KeyTag(key) >> \o msg

(***************************************************************************)
(* What the server may answer                                              *)
(***************************************************************************)

\* Longest value of an opaque text field of the token.
MaxIdLen == 3

\* HTTP status codes the server answers with: a success, a 3xx status that
\* requests hands back as it is (300 is not followed and may carry a body),
\* a client error.
Statuses == {200, 300, 404}

\* Mutant: the status of the response is never looked at.
ResponseOkAlways(st) == TRUE

\* requests.Response.ok: raise_for_status raises for 400..599 only.
ResponseOk(st) == ~(st >= 400 /\ st < 600)

\* Status 0 stands for no response at all: requests raises (connection
\* failure, timeout). A response that is not ok carries no JSON of interest.
Responses(bodies) ==
  {[status |-> 0, body |-> JNull]}
  \cup {[status |-> st, body |-> JNull] : st \in {x \in Statuses : ~ResponseOk(x)}}
  \cup {[status |-> st, body |-> b] : st \in {x \in Statuses : ResponseOk(x)}, b \in bodies}

\* The responses of the specifications that follow a whole example: the one
\* success status, the client error, no response.
FlowResponses(bodies) == {r \in Responses(bodies) : r.status \in {0, 200, 404}}

\* authorisationToSign texts: every hex text and every mix of a hex digit,
\* a base64-only character, the pad character and a character of neither.
AuthTexts ==
  StringsOver({"a", "7"}, MaxAuthLen) \cup StringsOver({"a", "Z", "=", "!"}, MaxAuthLen)

\* The texts the flow specification answers with: empty, hex only, both hex
\* and base64, neither, base64 only.
FlowAuthTexts == StringsOver({"a"}, MaxAuthLen) \cup { << "Q", "Q", "=", "=" >> }

\* PurchaseInstruction bodies: without the field, with a null, with a text.
Instructions(auths) ==
  { JObj(<< Member(K_id, JStr(<< "7" >>)) >>),
     JObj(<< Member(K_authorisationToSign, JNull), Member(K_id, JStr(<< "7" >>)) >>) }
  \cup { JObj(<< Member(K_authorisationToSign, JStr(a)), Member(K_id, JStr(<< "7" >>)) >>)
          : a \in auths }

SigTexts == StringsOver({"Q", "="}, MaxSigLen)

IdTexts == StringsOver({"\"", "\\", "%", "4"}, MaxIdLen)

\* signableEntity of a token: null, empty, without signature, with a null
\* signature, with a signature text.
SignableEntities(sigs) ==
  { JNull, JObj(<<>>), JObj(<< Member(K_routeId, JStr(ActivateRouteId)) >>),
     JObj(<< Member(K_signature, JNull) >>) }
  \cup { JObj(<< Member(K_routeId, JStr(ActivateRouteId)), Member(K_signature, JStr(g)) >>)
          : g \in sigs }

\* Purchase bodies (tokens): with and without signableEntity, with and
\* without a top-level signature of their own, and with opaque texts.
Tokens(sigs, ids) ==
  { JObj(<< Member(K_id, JStr(<< "7" >>)) >>),
     JObj(<< Member(K_signature, JStr(<< "o", "l", "d" >>)), Member(K_id, JStr(<< "7" >>)) >>) }
  \cup { JObj(<< Member(K_signableEntity, e), Member(K_id, JStr(<< "7" >>)) >>)
          : e \in SignableEntities(sigs) }
  \cup { JObj(<< Member(K_signature, JStr(<< "o", "l", "d" >>)), Member(K_signableEntity, e) >>)
          : e \in SignableEntities(sigs) }
  \cup { JObj(<< Member(K_signableEntity,
                         JObj(<< Member(K_signature, JStr(<< "Q", "Q", "=", "=" >>)) >>)),
                  Member(K_id, JStr(i)) >>)
          : i \in ids }

(***************************************************************************)
(* State                                                                   *)
(***************************************************************************)

VARIABLES
  pc,                   \* where the run is
  purchase_instruction, \* the PurchaseInstruction body, JNull before step 1
  access_token,         \* the Purchase body, JNull before step 3
  encoded_token,        \* the credential purchase_access_token returns
  events,               \* every request sent, signature made, serialization and sleep
  error,                \* the exception that ended the run, "none" otherwise
  response,             \* the response object of the last activation or status request
  phase1_result,        \* the JSON of the phase-1 response, JNull before it
  raw_signature_base64, \* the new account's signature of the trustline hash
  outcome,              \* what main reported when it ended, "none" before
  tx_hash,              \* transactionHash of the submit result, JNull before
  attempt,              \* iterations of the status loop begun so far
  status,               \* the JSON of the last status response, JNull before
  answered,             \* status responses received so far
  terminals,            \* of these, the ones whose status was success or failed
  quotes,               \* the catalog get_quotes returned, JNull before
  route_quote,          \* the quote purchase_access_token is called with
  after,                \* where main goes on when purchase_access_token returns
  status_quote,         \* the quote found for the status route (payment)
  submit_token,         \* the credential bought for the submit route (payment)
  status_token          \* the credential bought for the status route (payment)

\* The variables of purchase_access_token and those of the two main functions.
purchaseVars == << purchase_instruction, access_token, encoded_token >>

flowVars ==
  << response, phase1_result, raw_signature_base64, outcome,
     tx_hash, attempt, status, answered, terminals >>

\* The catalog, the argument and return of the purchase, and the two
\* credentials of the payment.
callVars == << quotes, route_quote, after, status_quote, submit_token, status_token >>

vars == << pc, purchaseVars, events, error, flowVars, callVars >>

\* A request with what came back: the status (0: nothing) and the JSON body.
Post(endpoint, header, body, r) ==
  [op |-> "post", endpoint |-> endpoint, header |-> header, body |-> body,
   status |-> r.status, reply |-> r.body, key |-> "", msg |-> <<>>]

Signing(key, msg) ==
  [op |-> "sign", endpoint |-> "", header |-> <<>>, body |-> JNull,
   status |-> 0, reply |-> JNull, key |-> key, msg |-> msg]

Serialized ==
  [op |-> "serialize", endpoint |-> "", header |-> <<>>, body |-> JNull,
   status |-> 0, reply |-> JNull, key |-> "", msg |-> <<>>]

\* A status request of the poll: its reply is kept in status, not in the log
\* (status -1: not recorded).
Sent(endpoint, header, body) ==
  [op |-> "post", endpoint |-> endpoint, header |-> header, body |-> body,
   status |-> -1, reply |-> JNull, key |-> "", msg |-> <<>>]

\* A GET request with what came back.
Fetched(endpoint, r) ==
  [op |-> "get", endpoint |-> endpoint, header |-> <<>>, body |-> JNull,
   status |-> r.status, reply |-> r.body, key |-> "", msg |-> <<>>]

\* time.sleep(seconds)
Sleeping(seconds) ==
  [op |-> "sleep", endpoint |-> "", header |-> <<>>, body |-> JNull,
   status |-> 0, reply |-> JNull, key |-> "", msg |-> <<>>, seconds |-> seconds]

\* No response yet.
NoResponse == [status |-> 0, body |-> JNull]

\* Nothing after the purchase has happened yet.
FlowInit ==
  /\ response = NoResponse
  /\ phase1_result = JNull
  /\ raw_signature_base64 = <<>>
  /\ outcome = "none"
  /\ tx_hash = JNull
  /\ attempt = 0
  /\ status = JNull
  /\ answered = 0
  /\ terminals = 0

Init ==
  /\ pc = "step1"
  /\ purchase_instruction = JNull
  /\ access_token = JNull
  /\ encoded_token = <<>>
  /\ events = <<>>
  /\ error = "none"
  /\ FlowInit
  /\ quotes = JObj(<< Member(K_quotes, JArr(<< ActivateQuote >>)) >>)
  /\ route_quote = ActivateQuote
  /\ after = "phase1"
  /\ status_quote = JNull
  /\ submit_token = <<>>
  /\ status_token = <<>>

\* An exception leaves purchase_access_token and main's try block.
Raise(kind) == pc' = "error" /\ error' = kind

\* main before it has fetched the catalog.
InitMain ==
  /\ pc = "quotes"
  /\ purchase_instruction = JNull
  /\ access_token = JNull
  /\ encoded_token = <<>>
  /\ events = <<>>
  /\ error = "none"
  /\ FlowInit
  /\ quotes = JNull
  /\ route_quote = JNull
  /\ after = "none"
  /\ status_quote = JNull
  /\ submit_token = <<>>
  /\ status_token = <<>>

(***************************************************************************)
(* get_quotes and the choice of the route, at the head of every main       *)
(***************************************************************************)

\* Longest catalog the server answers with.
MaxQuotes == 2

\* The quotes of a catalog: the routes the flows look for, a route whose
\* id contains the activation route, another route, a quote without
\* routeId, without signableEntity, without price, and with a
\* signableEntity that is null.
CatalogQuotes ==
  { RouteQuote(ActivateRouteId, 1),
    RouteQuote(<< "x", "-" >> \o ActivateRouteId \o << "-", "2" >>, 2),
    RouteQuote(SubmitRouteId, 1), RouteQuote(StatusRouteId, 1), RouteQuote(RpcRouteId, 1),
    RouteQuote(<< "o", "t", "h", "e", "r" >>, 1),
    JObj(<< Member(K_signableEntity, JObj(<< Member(K_microUnitPrice, JNum(1)) >>)) >>),
    JObj(<< Member(K_id, JStr(<< "7" >>)) >>),
    JObj(<< Member(K_signableEntity, JObj(<< Member(K_routeId, JStr(RpcRouteId)) >>)) >>),
    JObj(<< Member(K_signableEntity, JNull) >>) }

\* Every catalog of at most MaxQuotes quotes, a body without the list, with
\* a null in its place, and a body that is no object.
Catalogs ==
  { JObj(<< Member(K_quotes, JArr(list)) >>) :
      list \in UNION {[1..k -> CatalogQuotes] : k \in 0..MaxQuotes} }
  \cup { JObj(<<>>), JObj(<< Member(K_quotes, JNull) >>), JNull }

\* The catalogs of the flow specifications: every route offered, one of
\* the payment routes missing, only the activation route, nothing offered.
FlowCatalogs ==
  { JObj(<< Member(K_quotes, JArr(list)) >>) :
      list \in { << RouteQuote(ActivateRouteId, 1), RouteQuote(SubmitRouteId, 1),
                    RouteQuote(StatusRouteId, 2), RouteQuote(RpcRouteId, 1) >>,
                 << RouteQuote(SubmitRouteId, 1), RouteQuote(RpcRouteId, 1) >>,
                 << RouteQuote(ActivateRouteId, 1), RouteQuote(StatusRouteId, 2) >>,
                 <<>> } }

\* get_quotes: GET the catalog; raise_for_status.
GetQuotes(responses) ==
  /\ pc = "quotes"
  /\ \E r \in responses :
       /\ events' = Append(events, Fetched("quote", r))
       /\ IF r.status = 0 \/ ~ResponseOk(r.status)
          THEN Raise("RequestException") /\ UNCHANGED quotes
          ELSE pc' = "find" /\ quotes' = r.body /\ UNCHANGED error
  /\ UNCHANGED << purchaseVars, flowVars, route_quote, after, status_quote,
                  submit_token, status_token >>

\* quote["signableEntity"]["microUnitPrice"] / 1_000_000 can be computed.
HasPrice(quote) ==
  /\ HasKey(quote, K_signableEntity)
  /\ Get(quote, K_signableEntity, JNull).t = "obj"
  /\ HasKey(Get(quote, K_signableEntity, JNull), K_microUnitPrice)
  /\ Get(Get(quote, K_signableEntity, JNull), K_microUnitPrice, JNull).t = "num"

\* Mutant: a route that is not offered is bought with an empty quote.
RouteMissingIgnored(f) == FALSE

\* if not quote
RouteMissing(f) == ~f.found \/ ~Truthy(f.quote)

\* Look for the one route of a flow, end the run when it is not offered,
\* compute the price, call purchase_access_token with the quote found;
\* ret is where main goes on with the credential.
FindQuoteFor(sub, message, ret) ==
  /\ pc = "find"
  /\ LET f == FindQuoteByRouteId(quotes, sub) IN
     IF ~f.ok
     THEN Raise("Exception") /\ UNCHANGED << outcome, route_quote, after >>
     ELSE IF RouteMissing(f)
     THEN /\ pc' = "Done"
          /\ outcome' = message
          /\ UNCHANGED << error, route_quote, after >>
     ELSE IF ~HasPrice(f.quote)
     THEN Raise("Exception") /\ UNCHANGED << outcome, route_quote, after >>
     ELSE /\ pc' = "step1"
          /\ route_quote' = f.quote
          /\ after' = ret
          /\ UNCHANGED << outcome, error >>
  /\ UNCHANGED << purchaseVars, events, response, phase1_result, raw_signature_base64,
                  tx_hash, attempt, status, answered, terminals,
                  quotes, status_quote, submit_token, status_token >>

\* The full activation example.
FindActivateQuote ==
  FindQuoteFor(ActivateRouteId, "ERROR: stablecoin-activate-account route not found",
               "phase1")

\* The basic activation example.
FindActivateQuoteBasic ==
  FindQuoteFor(ActivateRouteId, "ERROR: stablecoin-activate-account route not found",
               "activate")

\* The RPC passthrough example.
FindRpcQuote ==
  FindQuoteFor(RpcRouteId, "ERROR: stellar-rpc-developer route not found", "rpc1")

\* The payment example: both routes are looked for before anything is
\* bought; the submit credential is bought first.
FindPaymentQuotes ==
  /\ pc = "find"
  /\ LET submit == FindQuoteByRouteId(quotes, SubmitRouteId)
         stat == FindQuoteByRouteId(quotes, StatusRouteId)
     IN
     IF ~submit.ok \/ ~stat.ok
     THEN Raise("Exception") /\ UNCHANGED << outcome, route_quote, after, status_quote >>
     ELSE IF RouteMissing(submit)
     THEN /\ pc' = "Done"
          /\ outcome' = "ERROR: stablecoin-submit-classic-tx route not found"
          /\ UNCHANGED << error, route_quote, after, status_quote >>
     ELSE IF RouteMissing(stat)
     THEN /\ pc' = "Done"
          /\ outcome' = "ERROR: stablecoin-get-tx-status route not found"
          /\ UNCHANGED << error, route_quote, after, status_quote >>
     ELSE IF ~HasPrice(submit.quote) \/ ~HasPrice(stat.quote)
     THEN Raise("Exception") /\ UNCHANGED << outcome, route_quote, after, status_quote >>
     ELSE /\ pc' = "step1"
          /\ route_quote' = submit.quote
          /\ status_quote' = stat.quote
          /\ after' = "bought_submit"
          /\ UNCHANGED << outcome, error >>
  /\ UNCHANGED << purchaseVars, events, response, phase1_result, raw_signature_base64,
                  tx_hash, attempt, status, answered, terminals,
                  quotes, submit_token, status_token >>

(***************************************************************************)
(* purchase_access_token                                                   *)
(***************************************************************************)

\* Step 1: POST PurchaseInstruction with the payer's public key and the quote.
RequestInstruction(responses) ==
  /\ pc = "step1"
  /\ \E r \in responses :
       /\ events' = Append(events,
            Post("PurchaseInstruction", <<>>,
                 JObj(<< Member(K_clientPublicKey, JStr(PayerPublicKey)),
                         Member(K_routeQuote, route_quote) >>),
                 r))
       /\ IF r.status = 0 \/ ~ResponseOk(r.status)
          THEN Raise("RequestException") /\ UNCHANGED purchase_instruction
          ELSE pc' = "step2" /\ purchase_instruction' = r.body /\ UNCHANGED error
  /\ UNCHANGED << access_token, encoded_token >>
  /\ UNCHANGED << flowVars, callVars >>

\* Mutant: the text is always taken as base64.
AuthBytesBase64Only(text) == B64Decode(text)

\* Mutant: hex is tried first, base64 only when the text is no hex.
AuthBytesHexFirst(text) == IF FromHex(text).ok THEN FromHex(text) ELSE B64Decode(text)

\* The bytes step 2 signs: base64 when the text decodes as base64, else hex.
AuthBytes(text) == IF ~IsBase64(text) THEN FromHex(text) ELSE B64Decode(text)

\* Mutant: the instruction goes to Purchase as it came, nothing is signed.
SignAuthorizationSkipped ==
  /\ pc = "step2"
  /\ pc' = "step3"
  /\ UNCHANGED << purchase_instruction, access_token, encoded_token, events, error >>
  /\ UNCHANGED << flowVars, callVars >>

\* Step 2: decode authorisationToSign, sign it, overwrite it with the
\* base64 of the signature.
SignAuthorization ==
  /\ pc = "step2"
  /\ LET auth_to_sign == Get(purchase_instruction, K_authorisationToSign, JStr(<<>>)) IN
     IF auth_to_sign.t # "str" \/ ~AuthBytes(auth_to_sign.s).ok
     THEN Raise("Exception") /\ UNCHANGED << purchase_instruction, events >>
     ELSE LET auth_bytes == AuthBytes(auth_to_sign.s).bytes IN
       /\ events' = Append(events, Signing("payer", auth_bytes))
       /\ purchase_instruction' =
            Put(purchase_instruction, K_authorisationToSign,
                JStr(B64Encode(Sign("payer", auth_bytes))))
       /\ pc' = "step3"
       /\ UNCHANGED error
  /\ UNCHANGED << access_token, encoded_token >>
  /\ UNCHANGED << flowVars, callVars >>

\* Step 3: POST the instruction, signature attached, to Purchase.
Purchase(responses) ==
  /\ pc = "step3"
  /\ \E r \in responses :
       /\ events' = Append(events, Post("Purchase", <<>>, purchase_instruction, r))
       /\ IF r.status = 0 \/ ~ResponseOk(r.status)
          THEN Raise("RequestException") /\ UNCHANGED access_token
          ELSE pc' = "step4" /\ access_token' = r.body /\ UNCHANGED error
  /\ UNCHANGED << purchase_instruction, encoded_token >>
  /\ UNCHANGED << flowVars, callVars >>

\* Mutant: the signature overwrites signableEntity.signature.
SignedTokenInEntity(token, sig_bytes) ==
  Put(token, K_signableEntity,
      Put(Get(token, K_signableEntity, JObj(<<>>)), K_signature,
          JStr(B64Encode(Sign("payer", sig_bytes)))))

\* The token after step 4 has signed sig_bytes: the signature goes into the
\* token's own top-level signature field.
SignedToken(token, sig_bytes) ==
  Put(token, K_signature, JStr(B64Encode(Sign("payer", sig_bytes))))

\* Step 4: sign the base64-decoded signableEntity.signature, when there is one.
SignToken ==
  /\ pc = "step4"
  /\ LET signable_entity == Get(access_token, K_signableEntity, JObj(<<>>)) IN
     IF signable_entity.t # "obj"
     THEN Raise("Exception") /\ UNCHANGED << access_token, events >>
     ELSE LET signature_to_sign == Get(signable_entity, K_signature, JStr(<<>>)) IN
       IF ~Truthy(signature_to_sign)
       THEN pc' = "serialize" /\ UNCHANGED << access_token, events, error >>
       ELSE IF signature_to_sign.t # "str" \/ ~B64Decode(signature_to_sign.s).ok
       THEN Raise("Exception") /\ UNCHANGED << access_token, events >>
       ELSE LET sig_bytes == B64Decode(signature_to_sign.s).bytes IN
         /\ events' = Append(events, Signing("payer", sig_bytes))
         /\ access_token' = SignedToken(access_token, sig_bytes)
         /\ pc' = "serialize"
         /\ UNCHANGED error
  /\ UNCHANGED << purchase_instruction, encoded_token >>
  /\ UNCHANGED << flowVars, callVars >>

\* The credential: compact JSON, percent-encoded with no safe characters.
EncodeToken(token) == Quote(Dumps(token))

\* Serialize the token and return the credential to main.
Serialize ==
  /\ pc = "serialize"
  /\ encoded_token' = EncodeToken(access_token)
  /\ events' = Append(events,
       [Serialized EXCEPT !.header = EncodeToken(access_token), !.body = route_quote])
  /\ pc' = after
  /\ UNCHANGED << purchase_instruction, access_token, error >>
  /\ UNCHANGED << flowVars, callVars >>

(***************************************************************************)
(* main of the full activation example, after the purchase                 *)
(***************************************************************************)

K_ticket == << "t", "i", "c", "k", "e", "t" >>

K_trustlineTransactionXdr == << "t", "r", "u", "s", "t", "l", "i", "n", "e", "T", "r", "a", "n", "s", "a", "c", "t", "i", "o", "n", "X", "d", "r" >>

K_trustlineTransactionHash == << "t", "r", "u", "s", "t", "l", "i", "n", "e", "T", "r", "a", "n", "s", "a", "c", "t", "i", "o", "n", "H", "a", "s", "h" >>

K_callerAccount == << "c", "a", "l", "l", "e", "r", "A", "c", "c", "o", "u", "n", "t" >>

K_rawSignature == << "r", "a", "w", "S", "i", "g", "n", "a", "t", "u", "r", "e" >>

\* Phase 1: POST the new account's public key with the credential in the
\* apicharge header. requests.post returns the response or raises.
ActivatePhase1(results) ==
  /\ pc = "phase1"
  /\ \E r \in Responses(results) :
       /\ events' = Append(events,
            Post("activate-account", encoded_token,
                 JObj(<< Member(K_publicKey, JStr(NewAccountPublicKey)) >>), r))
       /\ IF r.status = 0
          THEN Raise("RequestException") /\ UNCHANGED response
          ELSE pc' = "Phase1Requested" /\ response' = r /\ UNCHANGED error
  /\ UNCHANGED << callVars, purchaseVars, phase1_result, raw_signature_base64, outcome,
                  tx_hash, attempt, status, answered, terminals >>

\* if not response.ok: report the failure and return; else keep the JSON.
Phase1Response ==
  /\ pc = "Phase1Requested"
  /\ IF ~ResponseOk(response.status)
     THEN pc' = "Phase1Failed" /\ outcome' = "Phase 1 failed" /\ UNCHANGED phase1_result
     ELSE pc' = "Phase1Complete" /\ phase1_result' = response.body /\ UNCHANGED outcome
  /\ UNCHANGED << callVars, purchaseVars, events, error, response, raw_signature_base64,
                  tx_hash, attempt, status, answered, terminals >>

\* Longest trustlineTransactionHash text the server answers with.
MaxHashLen == 2

\* trustlineTransactionHash texts: hex and not hex, of even and odd length.
HashTexts == StringsOver({"a", "g"}, MaxHashLen)

\* One optional field of a JSON object: absent, or present with a value.
Field(k, values) == {<<>>} \cup {<< Member(k, v) >> : v \in values}

\* Phase-1 bodies: null, and an object with every combination of ticket,
\* trustlineTransactionXdr and trustlineTransactionHash absent, null, empty,
\* of the wrong type and as expected.
Phase1Results ==
  {JNull}
  \cup { JObj(t \o x \o h) :
           t \in Field(K_ticket, {JNull, JStr(<<>>), JStr(<< "T" >>), JNum(5)}),
           x \in Field(K_trustlineTransactionXdr, {JNull, JStr(<<>>), JStr(<< "X" >>)}),
           h \in Field(K_trustlineTransactionHash, {JNull} \cup {JStr(g) : g \in HashTexts}) }

\* Mutant: only the ticket decides whether phase 2 goes ahead.
Phase2DataAvailableTicketOnly(ticket, trustline_xdr) == Truthy(ticket)

\* not (not ticket or not trustline_xdr)
Phase2DataAvailable(ticket, trustline_xdr) == Truthy(ticket) /\ Truthy(trustline_xdr)

\* Look for the phase-2 data in the phase-1 result: without ticket or
\* transaction the run ends here, the account created without trustlines.
CheckPhase2Data ==
  /\ pc = "Phase1Complete"
  /\ IF phase1_result.t # "obj"
     THEN Raise("Exception") /\ UNCHANGED outcome
     ELSE LET ticket == Get(phase1_result, K_ticket, JNull)
              trustline_xdr == Get(phase1_result, K_trustlineTransactionXdr, JNull)
          IN IF ~Phase2DataAvailable(ticket, trustline_xdr)
             THEN /\ pc' = "Done"
                  /\ outcome' = "Account created but trustlines not available"
                  /\ UNCHANGED error
             ELSE IF ticket.t # "str"
             THEN Raise("Exception") /\ UNCHANGED outcome
             ELSE pc' = "Phase2Pending" /\ UNCHANGED << outcome, error >>
  /\ UNCHANGED << callVars, purchaseVars, events, response, phase1_result, raw_signature_base64,
                  tx_hash, attempt, status, answered, terminals >>

\* Mutant: the payer's key signs the trustline hash.
HashSigningKeyPayer == "payer"

\* The key that signs the trustline hash: new_account.sign.
HashSigningKey == "new_account"

\* Phase 2: hex-decode trustlineTransactionHash and sign it with the new
\* account's key; bytes.fromhex raises on anything but a hex text.
SignTrustlineHash ==
  /\ pc = "Phase2Pending"
  /\ LET trustline_hash == Get(phase1_result, K_trustlineTransactionHash, JNull) IN
     IF trustline_hash.t # "str" \/ ~FromHex(trustline_hash.s).ok
     THEN Raise("Exception") /\ UNCHANGED << events, raw_signature_base64 >>
     ELSE LET hash_bytes == FromHex(trustline_hash.s).bytes IN
       /\ events' = Append(events, Signing(HashSigningKey, hash_bytes))
       /\ raw_signature_base64' = B64Encode(Sign(HashSigningKey, hash_bytes))
       /\ pc' = "Phase2Signed"
       /\ UNCHANGED error
  /\ UNCHANGED << callVars, purchaseVars, response, phase1_result, outcome,
                  tx_hash, attempt, status, answered, terminals >>

\* Phase 2: POST the ticket and the raw signature to the same endpoint.
SubmitPhase2 ==
  /\ pc = "Phase2Signed"
  /\ \E r \in Responses({JObj(<<>>)}) :
       /\ events' = Append(events,
            Post("activate-account", encoded_token,
                 JObj(<< Member(K_publicKey, JStr(NewAccountPublicKey)),
                         Member(K_ticket, Get(phase1_result, K_ticket, JNull)),
                         Member(K_callerAccount, JStr(NewAccountPublicKey)),
                         Member(K_rawSignature, JStr(raw_signature_base64)) >>), r))
       /\ IF r.status = 0
          THEN Raise("RequestException") /\ UNCHANGED response
          ELSE pc' = "Phase2Submitted" /\ response' = r /\ UNCHANGED error
  /\ UNCHANGED << callVars, purchaseVars, phase1_result, raw_signature_base64, outcome,
                  tx_hash, attempt, status, answered, terminals >>

\* Mutant: a failed phase 2 is submitted again.
Phase2ResponseRetried ==
  /\ pc = "Phase2Submitted"
  /\ IF ResponseOk(response.status)
     THEN pc' = "Done" /\ outcome' = "Account fully activated with trustlines"
     ELSE pc' = "Phase2Signed" /\ UNCHANGED outcome
  /\ UNCHANGED << callVars, purchaseVars, events, error, response, phase1_result,
                  raw_signature_base64, tx_hash, attempt, status, answered, terminals >>

\* if response.ok: fully activated; else: phase 2 failed, and the note that
\* phase 1 succeeded and the account exists.
Phase2Response ==
  /\ pc = "Phase2Submitted"
  /\ IF ResponseOk(response.status)
     THEN pc' = "Done" /\ outcome' = "Account fully activated with trustlines"
     ELSE /\ pc' = "Phase2Failed"
          /\ outcome' = "Phase 2 failed. Phase 1 succeeded - account exists with XLM"
  /\ UNCHANGED << callVars, purchaseVars, events, error, response, phase1_result,
                  raw_signature_base64, tx_hash, attempt, status, answered, terminals >>

Next(auths, tokens) ==
  \/ RequestInstruction(Responses(Instructions(auths)))
  \/ SignAuthorization
  \/ Purchase(Responses(tokens))
  \/ SignToken
  \/ Serialize
  \/ ActivatePhase1({JObj(<<>>)})

(***************************************************************************)
(* main of the stablecoin payment example, from the submission on          *)
(***************************************************************************)

K_transactionXdr == << "t", "r", "a", "n", "s", "a", "c", "t", "i", "o", "n", "X", "d", "r" >>

K_transactionHash == << "t", "r", "a", "n", "s", "a", "c", "t", "i", "o", "n", "H", "a", "s", "h" >>

K_status == << "s", "t", "a", "t", "u", "s" >>

K_ledger == << "l", "e", "d", "g", "e", "r" >>

T_unknown == << "u", "n", "k", "n", "o", "w", "n" >>

T_pending == << "p", "e", "n", "d", "i", "n", "g" >>

T_success == << "s", "u", "c", "c", "e", "s", "s" >>

T_failed == << "f", "a", "i", "l", "e", "d" >>

\* The credentials of the two routes and the signed transaction, as the
\* earlier steps of main left them.
SubmitToken == << "c", "1" >>

StatusToken == << "c", "2" >>

\* What the payer signs in build_zero_fee_payment: the hash of the payment
\* the builder made from the sequence number, the recipient and the amount.
TxPayload == << 9 >>

\* transaction.to_xdr(): the envelope as text, holding the source account
\* and the payer's signature of the payment.
TxXdr == PayerPublicKey \o B64Encode(Sign("payer", TxPayload))

\* for attempt in range(20)
MaxAttempts == 20

\* time.sleep(2)
PollInterval == 2

\* str.lower() of an ASCII text.
Lower(s) == [i \in 1..Len(s) |-> IF IsUpper(s[i]) THEN Chr(Ord(s[i]) + 32) ELSE s[i]]

\* submit-transaction bodies: null, without hash, with an empty and with a
\* real hash.
SubmitResults ==
  { JNull, JObj(<<>>), JObj(<< Member(K_transactionHash, JStr(<<>>)) >>),
    JObj(<< Member(K_transactionHash, JStr(<< "a", "b" >>)) >>) }

\* The status texts the server answers with, in either case.
StatusTexts ==
  { T_pending, T_unknown, T_success, T_failed,
    << "S", "U", "C", "C", "E", "S", "S" >>, << "F", "a", "i", "l", "e", "d" >> }

\* get-transaction-status bodies: null, without status, with a status that
\* is null or a number, with a status text, with a status and a ledger.
StatusResults ==
  { JNull, JObj(<<>>), JObj(<< Member(K_status, JNull) >>),
    JObj(<< Member(K_status, JNum(5)) >>),
    JObj(<< Member(K_status, JStr(T_success)), Member(K_ledger, JNum(12345)) >>) }
  \cup { JObj(<< Member(K_status, JStr(t)) >>) : t \in StatusTexts }

\* Where the payment example is once both credentials are bought and the
\* transaction is built and signed.
InitPoll ==
  /\ pc = "submit"
  /\ purchase_instruction = JNull
  /\ access_token = JNull
  /\ encoded_token = <<>>
  /\ events = <<>>
  /\ error = "none"
  /\ FlowInit
  /\ quotes = JObj(<< Member(K_quotes, JArr(<< RouteQuote(SubmitRouteId, 1),
                                             RouteQuote(StatusRouteId, 1) >>)) >>)
  /\ route_quote = RouteQuote(StatusRouteId, 1)
  /\ after = "bought_status"
  /\ status_quote = RouteQuote(StatusRouteId, 1)
  /\ submit_token = SubmitToken
  /\ status_token = StatusToken

\* Mutant: an empty transaction hash is taken for a hash.
HasTransactionHashIfPresent(submit_result) == HasKey(submit_result, K_transactionHash)

\* tx_hash = submit_result.get("transactionHash"); if not tx_hash
HasTransactionHash(submit_result) == Truthy(Get(submit_result, K_transactionHash, JNull))

\* submit_transaction, and main's look at the result: without a transaction
\* hash the run ends.
SubmitTransaction(responses) ==
  /\ pc = "submit"
  /\ \E r \in responses :
       /\ events' = Append(events,
            Post("submit-transaction", submit_token,
                 JObj(<< Member(K_transactionXdr, JStr(TxXdr)) >>), r))
       /\ IF r.status = 0 \/ ~ResponseOk(r.status)
          THEN Raise("RequestException") /\ UNCHANGED << tx_hash, outcome >>
          ELSE IF r.body.t # "obj"
          THEN Raise("Exception") /\ UNCHANGED << tx_hash, outcome >>
          ELSE IF ~HasTransactionHash(r.body)
          THEN pc' = "Done" /\ outcome' = "ERROR: Submit failed" /\ UNCHANGED << tx_hash, error >>
          ELSE /\ pc' = "poll"
               /\ tx_hash' = Get(r.body, K_transactionHash, JNull)
               /\ UNCHANGED << outcome, error >>
  /\ UNCHANGED << callVars, purchaseVars, response, phase1_result, raw_signature_base64,
                  attempt, status, answered, terminals >>

\* Mutant: the loop runs once more than range(20).
MoreAttemptsOneMore(n) == n <= MaxAttempts

\* The for loop has another iteration after n of them.
MoreAttempts(n) == n < MaxAttempts

\* Mutant: the next iteration starts without the sleep.
SleepSkipped ==
  /\ pc = "poll"
  /\ MoreAttempts(attempt)
  /\ attempt' = attempt + 1
  /\ pc' = "check"
  /\ UNCHANGED << callVars, purchaseVars, events, error, response, phase1_result,
                  raw_signature_base64, outcome, tx_hash, status, answered, terminals >>

\* The head of an iteration: time.sleep(2).
Sleep ==
  /\ pc = "poll"
  /\ MoreAttempts(attempt)
  /\ attempt' = attempt + 1
  /\ events' = Append(events, Sleeping(PollInterval))
  /\ pc' = "check"
  /\ UNCHANGED << callVars, purchaseVars, error, response, phase1_result, raw_signature_base64,
                  outcome, tx_hash, status, answered, terminals >>

\* The response has a status text that is success or failed in any case of
\* letters.
CarriesTerminal(body) ==
  /\ body.t = "obj"
  /\ Get(body, K_status, JNull).t = "str"
  /\ Lower(Get(body, K_status, JNull).s) \in {T_success, T_failed}

\* Mutant: a failed status is not looked for.
IsFailedNever(status_str) == FALSE

\* status_str.lower() == "success" and status_str.lower() == "failed"
IsSuccess(status_str) == Lower(status_str) = T_success

IsFailed(status_str) == Lower(status_str) = T_failed

\* Mutant: every terminal status is reported as a confirmation.
ReportedOutcomeAlwaysSuccess(status_str) == "SUCCESS! Transaction confirmed!"

\* What main prints for a terminal status.
ReportedOutcome(status_str) ==
  IF IsSuccess(status_str) THEN "SUCCESS! Transaction confirmed!"
  ELSE "ERROR: Transaction failed"

\* The rest of an iteration: check_transaction_status (the request,
\* raise_for_status, the JSON) and main's look at the status.
CheckTransactionStatus(results) ==
  /\ pc = "check"
  /\ \E r \in Responses(results) :
       /\ events' = Append(events,
            Sent("get-transaction-status", status_token,
                 JObj(<< Member(K_transactionHash, tx_hash) >>)))
       /\ IF r.status = 0
          THEN /\ Raise("RequestException")
               /\ UNCHANGED << response, status, answered, terminals, outcome >>
          ELSE
            /\ response' = r
            /\ IF ~ResponseOk(r.status)
               THEN /\ Raise("RequestException")
                    /\ UNCHANGED << status, answered, terminals, outcome >>
               ELSE
                 /\ status' = r.body
                 /\ answered' = answered + 1
                 /\ terminals' = terminals + (IF CarriesTerminal(r.body) THEN 1 ELSE 0)
                 /\ IF r.body.t # "obj"
                    THEN Raise("Exception") /\ UNCHANGED outcome
                    ELSE LET status_str == Get(r.body, K_status, JStr(T_unknown)) IN
                      IF status_str.t # "str"
                      THEN Raise("Exception") /\ UNCHANGED outcome
                      ELSE IF IsSuccess(status_str.s) \/ IsFailed(status_str.s)
                      THEN /\ pc' = "Done"
                           /\ outcome' = ReportedOutcome(status_str.s)
                           /\ UNCHANGED error
                      ELSE pc' = "poll" /\ UNCHANGED << outcome, error >>
  /\ UNCHANGED << callVars, purchaseVars, phase1_result, raw_signature_base64, tx_hash, attempt >>

\* Mutant: nothing follows the last iteration.
PollExhaustedNever == FALSE /\ UNCHANGED vars

\* After the last iteration: the status is reported as unknown.
PollExhausted ==
  /\ pc = "poll"
  /\ ~MoreAttempts(attempt)
  /\ pc' = "Done"
  /\ outcome' = "WARNING: Transaction status unknown after 20 attempts"
  /\ UNCHANGED << callVars, purchaseVars, events, error, response, phase1_result,
                  raw_signature_base64, tx_hash, attempt, status, answered, terminals >>

NextPoll ==
  \/ SubmitTransaction(Responses(SubmitResults))
  \/ Sleep
  \/ CheckTransactionStatus(StatusResults)
  \/ PollExhausted

\* The submission and the status poll over every status response.
SpecPoll == InitPoll /\ [][NextPoll]_vars

\* One authorisationToSign and one token, where a specification varies the other.
PlainAuthText == << "Q", "Q", "=", "=" >>

PlainToken ==
  JObj(<< Member(K_signableEntity,
                 JObj(<< Member(K_signature, JStr(<< "Q", "Q", "=", "=" >>)) >>)) >>)

\* The purchase inside the activation flow, over every shape of token.
Spec == Init /\ [][Next(FlowAuthTexts, Tokens(SigTexts, {}))]_vars

\* The same flow over every authorisationToSign text and one token.
SpecAuth == Init /\ [][Next(AuthTexts, {PlainToken})]_vars

\* The same flow over tokens with every opaque text and one authorisation.
SpecSerialize == Init /\ [][Next({PlainAuthText}, Tokens({}, IdTexts))]_vars

\* The whole of main of the full activation example, over one purchase.
NextActivation(results) ==
  \/ RequestInstruction(Responses(Instructions({PlainAuthText})))
  \/ SignAuthorization
  \/ Purchase(Responses({PlainToken}))
  \/ SignToken
  \/ Serialize
  \/ ActivatePhase1(results)
  \/ Phase1Response
  \/ CheckPhase2Data
  \/ SignTrustlineHash
  \/ SubmitPhase2
  \/ Phase2Response

\* The two phases of the activation over every shape of phase-1 result.
SpecActivation == Init /\ [][NextActivation(Phase1Results)]_vars

(***************************************************************************)
(* main of the payment example, from the purchases to the submission       *)
(***************************************************************************)

K_sequence == << "s", "e", "q", "u", "e", "n", "c", "e" >>

\* Horizon's account bodies: a sequence as text and as number, a text that
\* is no number, no sequence, null.
SequenceResults ==
  { JObj(<< Member(K_sequence, JStr(<< "1", "2" >>)) >>),
    JObj(<< Member(K_sequence, JNum(12)) >>),
    JObj(<< Member(K_sequence, JStr(<< "x" >>)) >>),
    JObj(<<>>), JNull }

\* int(response.json()["sequence"]) returns.
HasSequence(body) ==
  /\ body.t = "obj"
  /\ HasKey(body, K_sequence)
  /\ LET v == Get(body, K_sequence, JNull) IN
       \/ v.t = "num"
       \/ v.t = "str" /\ v.s # <<>> /\ \A i \in 1..Len(v.s) : IsDigit(v.s[i])

\* Mutant: the status route is paid with the submit credential again.
StoreSubmitTokenOnly ==
  /\ pc = "bought_submit"
  /\ submit_token' = encoded_token
  /\ after' = "bought_status"
  /\ pc' = "serialize"
  /\ UNCHANGED << purchaseVars, events, error, flowVars, quotes, route_quote, status_quote, status_token >>

\* The first purchase has returned: keep the submit credential and call
\* purchase_access_token with the status quote.
StoreSubmitToken ==
  /\ pc = "bought_submit"
  /\ submit_token' = encoded_token
  /\ route_quote' = status_quote
  /\ after' = "bought_status"
  /\ purchase_instruction' = JNull
  /\ access_token' = JNull
  /\ encoded_token' = <<>>
  /\ pc' = "step1"
  /\ UNCHANGED << events, error, flowVars, quotes, status_quote, status_token >>

\* The second purchase has returned: keep the status credential, then
\* get_account_sequence: GET the payer's account from Horizon.
GetAccountSequence(responses) ==
  /\ pc = "bought_status"
  /\ status_token' = encoded_token
  /\ \E r \in responses :
       /\ events' = Append(events, Fetched("accounts", r))
       /\ IF r.status = 0 \/ ~ResponseOk(r.status)
          THEN Raise("RequestException")
          ELSE IF ~HasSequence(r.body)
          THEN Raise("Exception")
          ELSE pc' = "build" /\ UNCHANGED error
  /\ UNCHANGED << purchaseVars, flowVars, quotes, route_quote, after, status_quote, submit_token >>

\* build_zero_fee_payment: the payer signs the payment.
BuildTransaction ==
  /\ pc = "build"
  /\ events' = Append(events, Signing("payer", TxPayload))
  /\ pc' = "submit"
  /\ UNCHANGED << purchaseVars, error, flowVars, callVars >>

(***************************************************************************)
(* main of the basic activation example, after the purchase                *)
(***************************************************************************)

\* Mutant: a response with a ticket is answered with a second request.
ActivateBasicAnswersTicket(results) ==
  /\ pc = "activate"
  /\ \E r \in Responses(results) :
       /\ events' =
            IF r.body.t = "obj" /\ HasKey(r.body, K_ticket)
            THEN events \o
                 << Post("activate-account", encoded_token,
                         JObj(<< Member(K_publicKey, JStr(NewAccountPublicKey)) >>), r),
                    Post("activate-account", encoded_token,
                         JObj(<< Member(K_publicKey, JStr(NewAccountPublicKey)),
                                 Member(K_ticket, Get(r.body, K_ticket, JNull)) >>), r) >>
            ELSE Append(events,
                   Post("activate-account", encoded_token,
                        JObj(<< Member(K_publicKey, JStr(NewAccountPublicKey)) >>), r))
       /\ response' = r
       /\ pc' = "Done"
       /\ outcome' = "SUCCESS! Account activated (Phase 1 complete)"
  /\ UNCHANGED << callVars, purchaseVars, error, phase1_result, raw_signature_base64,
                  tx_hash, attempt, status, answered, terminals >>

\* The one request of the basic example and main's look at the response:
\* POST the new account's public key with the credential; a response that
\* is not ok ends the run, any other is reported as phase 1 complete.
ActivateBasic(results) ==
  /\ pc = "activate"
  /\ \E r \in Responses(results) :
       /\ events' = Append(events,
            Post("activate-account", encoded_token,
                 JObj(<< Member(K_publicKey, JStr(NewAccountPublicKey)) >>), r))
       /\ IF r.status = 0
          THEN Raise("RequestException") /\ UNCHANGED << response, phase1_result, outcome >>
          ELSE
            /\ response' = r
            /\ IF ~ResponseOk(r.status)
               THEN /\ pc' = "Done"
                    /\ outcome' = "ERROR: Activation failed"
                    /\ UNCHANGED << phase1_result, error >>
               ELSE
                 /\ phase1_result' = r.body
                 /\ IF r.body.t # "obj"
                    THEN Raise("Exception") /\ UNCHANGED outcome
                    ELSE /\ pc' = "Done"
                         /\ outcome' = "SUCCESS! Account activated (Phase 1 complete)"
                         /\ UNCHANGED error
  /\ UNCHANGED << callVars, purchaseVars, raw_signature_base64,
                  tx_hash, attempt, status, answered, terminals >>

(***************************************************************************)
(* main of the RPC passthrough example, after the purchase                 *)
(***************************************************************************)

K_jsonrpc == << "j", "s", "o", "n", "r", "p", "c" >>

K_method == << "m", "e", "t", "h", "o", "d" >>

K_result == << "r", "e", "s", "u", "l", "t" >>

K_error == << "e", "r", "r", "o", "r" >>

K_hash == << "h", "a", "s", "h" >>

K_passphrase == << "p", "a", "s", "s", "p", "h", "r", "a", "s", "e" >>

M_getHealth == << "g", "e", "t", "H", "e", "a", "l", "t", "h" >>

M_getLatestLedger == << "g", "e", "t", "L", "a", "t", "e", "s", "t", "L", "e", "d", "g", "e", "r" >>

M_getNetwork == << "g", "e", "t", "N", "e", "t", "w", "o", "r", "k" >>

\* A response body that is no JSON.
NotJson == [t |-> "invalid", s |-> <<>>, m |-> <<>>, n |-> 0]

\* {"jsonrpc": "2.0", "id": id, "method": method}
RpcRequest(id, method) ==
  JObj(<< Member(K_jsonrpc, JStr(<< "2", ".", "0" >>)), Member(K_id, JNum(id)),
          Member(K_method, JStr(method)) >>)

\* What the passthrough answers with: a result that has every field the
\* example reads, a JSON-RPC error, a result whose texts are numbers, a
\* null result, and a body that is no JSON.
RpcBodies ==
  { JObj(<< Member(K_result,
                   JObj(<< Member(K_status, JStr(<< "o", "k" >>)),
                           Member(K_sequence, JNum(7)),
                           Member(K_hash, JStr(<< "a", "b" >>)),
                           Member(K_passphrase, JStr(<< "p" >>)) >>)) >>),
    JObj(<< Member(K_error, JStr(<< "n", "o" >>)) >>),
    JObj(<< Member(K_result,
                   JObj(<< Member(K_hash, JNum(5)), Member(K_passphrase, JNum(5)) >>)) >>),
    JObj(<< Member(K_result, JNull) >>),
    NotJson }

\* The passthrough's responses: nothing at all, or any status with any body
\* (a refusal also has a body, and the example reads it).
RpcResponses ==
  {NoResponse} \cup {[status |-> st, body |-> b] : st \in Statuses, b \in RpcBodies}

\* value[:n] can be computed.
Sliceable(v) == v.t \in {"str", "arr"}

\* One call of the passthrough and what main reads of its answer: POST the
\* JSON-RPC request with the credential, response.json() without a look at
\* the status, result.get('result', {}), then the fields; sliced names the
\* fields main slices. The last call is followed by the success report.
RpcCall(responses, step, id, method, sliced, next) ==
  /\ pc = step
  /\ \E r \in responses :
       /\ events' = Append(events, Post("rpc", encoded_token, RpcRequest(id, method), r))
       /\ IF r.status = 0
          THEN Raise("RequestException") /\ UNCHANGED << response, outcome >>
          ELSE
            /\ response' = r
            /\ IF r.body = NotJson
               THEN Raise("JSONDecodeError") /\ UNCHANGED outcome
               ELSE IF r.body.t # "obj"
               THEN Raise("Exception") /\ UNCHANGED outcome
               ELSE LET result == Get(r.body, K_result, JObj(<<>>)) IN
                 IF result.t # "obj"
                 THEN Raise("Exception") /\ UNCHANGED outcome
                 ELSE IF \E f \in sliced : ~Sliceable(Get(result, f, JStr(T_unknown)))
                 THEN Raise("Exception") /\ UNCHANGED outcome
                 ELSE /\ pc' = next
                      /\ outcome' = IF next = "Done"
                                    THEN "SUCCESS! RPC passthrough working correctly"
                                    ELSE outcome
                      /\ UNCHANGED error
  /\ UNCHANGED << callVars, purchaseVars, phase1_result, raw_signature_base64,
                  tx_hash, attempt, status, answered, terminals >>

GetHealth(responses) == RpcCall(responses, "rpc1", 1, M_getHealth, {}, "rpc2")

GetLatestLedger(responses) ==
  RpcCall(responses, "rpc2", 2, M_getLatestLedger, {K_hash}, "rpc3")

GetNetwork(responses) ==
  RpcCall(responses, "rpc3", 3, M_getNetwork, {K_passphrase}, "Done")

(***************************************************************************)
(* The specifications of the four examples from the start of main          *)
(***************************************************************************)

\* The tokens of the flow specifications: one to be signed, one that is not.
FlowTokens ==
  { PlainToken, JObj(<< Member(K_id, JStr(<< "7" >>)) >>) }

\* The status bodies of the flow specifications.
FlowStatusResults ==
  { JObj(<< Member(K_status, JStr(T_pending)) >>),
    JObj(<< Member(K_status, JStr(T_success)) >>),
    JObj(<< Member(K_status, JStr(T_failed)) >>) }

\* The phase-1 bodies of the flow specifications.
FlowPhase1Results ==
  { JObj(<<>>),
    JObj(<< Member(K_ticket, JStr(<< "t" >>)),
            Member(K_trustlineTransactionXdr, JStr(<< "x" >>)),
            Member(K_trustlineTransactionHash, JStr(<< "a", "b" >>)) >>) }

\* get_quotes and find_quote_by_route_id of the four examples over every
\* catalog.
NextFind ==
  \/ GetQuotes(Responses(Catalogs))
  \/ FindActivateQuote
  \/ FindActivateQuoteBasic
  \/ FindRpcQuote
  \/ FindPaymentQuotes

SpecFind == InitMain /\ [][NextFind]_vars

\* The basic activation example over every shape of phase-1 result.
NextBasic ==
  \/ GetQuotes(FlowResponses(FlowCatalogs))
  \/ FindActivateQuoteBasic
  \/ RequestInstruction(FlowResponses(Instructions({PlainAuthText})))
  \/ SignAuthorization
  \/ Purchase(FlowResponses({PlainToken}))
  \/ SignToken
  \/ Serialize
  \/ ActivateBasic(Phase1Results)

SpecBasic == InitMain /\ [][NextBasic]_vars

\* The RPC passthrough example.
NextPassthrough ==
  \/ GetQuotes(FlowResponses(FlowCatalogs))
  \/ FindRpcQuote
  \/ RequestInstruction(FlowResponses(Instructions({PlainAuthText})))
  \/ SignAuthorization
  \/ Purchase(FlowResponses({PlainToken}))
  \/ SignToken
  \/ Serialize
  \/ GetHealth(RpcResponses)
  \/ GetLatestLedger(RpcResponses)
  \/ GetNetwork(RpcResponses)

SpecPassthrough == InitMain /\ [][NextPassthrough]_vars

\* The payment example.
NextPayment ==
  \/ GetQuotes(FlowResponses(FlowCatalogs))
  \/ FindPaymentQuotes
  \/ RequestInstruction(FlowResponses(Instructions({PlainAuthText})))
  \/ SignAuthorization
  \/ Purchase(FlowResponses(FlowTokens))
  \/ SignToken
  \/ Serialize
  \/ StoreSubmitToken
  \/ GetAccountSequence(FlowResponses(SequenceResults))
  \/ BuildTransaction
  \/ SubmitTransaction(FlowResponses(SubmitResults))
  \/ Sleep
  \/ CheckTransactionStatus(FlowStatusResults)
  \/ PollExhausted

SpecPayment == InitMain /\ [][NextPayment]_vars

\* The four examples side by side: after the catalog, main is any of them.
NextFlows ==
  \/ GetQuotes(FlowResponses(FlowCatalogs))
  \/ FindActivateQuote
  \/ FindActivateQuoteBasic
  \/ FindRpcQuote
  \/ FindPaymentQuotes
  \/ RequestInstruction(FlowResponses(Instructions({PlainAuthText})))
  \/ SignAuthorization
  \/ Purchase(FlowResponses(FlowTokens))
  \/ SignToken
  \/ Serialize
  \/ ActivatePhase1(FlowPhase1Results)
  \/ Phase1Response
  \/ CheckPhase2Data
  \/ SignTrustlineHash
  \/ SubmitPhase2
  \/ Phase2Response
  \/ ActivateBasic(FlowPhase1Results)
  \/ GetHealth(RpcResponses)
  \/ GetLatestLedger(RpcResponses)
  \/ GetNetwork(RpcResponses)
  \/ StoreSubmitToken
  \/ GetAccountSequence(FlowResponses(SequenceResults))
  \/ BuildTransaction
  \/ SubmitTransaction(FlowResponses(SubmitResults))
  \/ Sleep
  \/ CheckTransactionStatus(FlowStatusResults)
  \/ PollExhausted

SpecFlows == InitMain /\ [][NextFlows]_vars

\* Every requests call has a timeout and time.sleep returns, so a step that
\* can be taken is taken.
SpecFlowsFair == SpecFlows /\ WF_vars(NextFlows)

(***************************************************************************)
(* Properties                                                              *)
(***************************************************************************)

IsPost(e, endpoint) == e.op = "post" /\ e.endpoint = endpoint

\* The request was answered and the client went on (response.ok).
StepOk(e) == e.op = "post" /\ e.status >= 100 /\ e.status < 400

\* A success response in the sense of HTTP: status 200..299.
Success2xx(st) == st >= 200 /\ st <= 299

SignEvents == {i \in 1..Len(events) : events[i].op = "sign"}

\* The PurchaseInstruction body as the server sent it, once step 1 was answered.
InstructionReceived == Len(events) >= 1 /\ StepOk(events[1])

ReceivedAuth == Get(events[1].reply, K_authorisationToSign, JStr(<<>>))

\* The token as the server sent it, once step 3 was answered.
TokenReceived == Len(events) >= 3 /\ IsPost(events[3], "Purchase") /\ StepOk(events[3])

ReceivedToken == events[3].reply

ReceivedEntity == Get(ReceivedToken, K_signableEntity, JObj(<<>>))

ReceivedSignature == Get(ReceivedEntity, K_signature, JStr(<<>>))

\* The received token has a non-empty signableEntity.signature text.
TokenHasSignature ==
  /\ ReceivedEntity.t = "obj"
  /\ ReceivedSignature.t = "str"
  /\ ReceivedSignature.s # <<>>

\* Even length, every character one of 0-9a-f.
WellFormedHex(text) ==
  /\ Len(text) % 2 = 0
  /\ \A i \in 1..Len(text) : IsDigit(text[i]) \/ (Ord(text[i]) >= 97 /\ Ord(text[i]) <= 102)

\* The members of an object other than key k, in order.
Without(o, k) == SelectSeq(o.m, LAMBDA mem : mem.k # k)

InstructionFailureAborts ==
  (Len(events) >= 1 /\ IsPost(events[1], "PurchaseInstruction")
     /\ ~Success2xx(events[1].status))
  => /\ Len(events) = 1
     /\ pc = "error"
     /\ encoded_token = <<>>

\* C3: a Purchase request that gets no success response aborts the
\* purchase: the token is not signed, no credential is returned, the request
\* is not repeated and the flow sends no metered request afterwards.
PurchaseFailureAborts ==
  \A i \in 1..Len(events) :
    (IsPost(events[i], "Purchase") /\ ~Success2xx(events[i].status))
    => /\ Len(events) = i
       /\ pc = "error"
       /\ encoded_token = <<>>

\* C4: with no authorisationToSign in the PurchaseInstruction body, or an
\* empty one, the purchase fails before anything is signed and before any
\* request to Purchase.
MissingAuthorisationFailsFast ==
  (InstructionReceived /\ ReceivedAuth = JStr(<<>>) /\ pc # "step2")
  => /\ Len(events) = 1
     /\ pc = "error"

\* C5: an authorisationToSign that is well-formed hex and not valid base64
\* is taken as hex: step 2 signs exactly its hex-decoded bytes.
HexOnlyTextSignedAsHex ==
  (InstructionReceived /\ ReceivedAuth.t = "str" /\ WellFormedHex(ReceivedAuth.s)
     /\ ~IsBase64(ReceivedAuth.s) /\ pc # "step2")
  => /\ Len(events) >= 2
     /\ events[2] = Signing("payer", FromHex(ReceivedAuth.s).bytes)

\* The hex text aa, which is no base64, was signed as the byte 170.
HexOnlyTextSignedAsHexWitness ==
  /\ pc = "step3"
  /\ ReceivedAuth = JStr(<< "a", "a" >>)
  /\ events[2].msg = << 170 >>

\* C6: base64 is tried first: a non-empty authorisationToSign that is both
\* well-formed hex and decodable as base64 is signed as its base64
\* decoding, which is not its hex decoding.
Base64TakesPrecedence ==
  (InstructionReceived /\ ReceivedAuth.t = "str" /\ ReceivedAuth.s # <<>>
     /\ WellFormedHex(ReceivedAuth.s) /\ IsBase64(ReceivedAuth.s) /\ pc # "step2")
  => /\ Len(events) >= 2
     /\ events[2] = Signing("payer", B64Decode(ReceivedAuth.s).bytes)
     /\ events[2].msg # FromHex(ReceivedAuth.s).bytes

\* The text a7a7, hex and base64 at once, was signed as three base64 bytes.
Base64TakesPrecedenceWitness ==
  /\ pc = "step3"
  /\ ReceivedAuth = JStr(<< "a", "7", "a", "7" >>)
  /\ Len(events[2].msg) = 3

\* C7: a non-empty signableEntity.signature is base64-decoded and signed
\* with the payer's key, the base64 of the result becomes the token's own
\* top-level signature, and every other member of the token, signableEntity
\* included, stays as the server sent it.
TokenSignatureStoredTopLevel ==
  (TokenReceived /\ TokenHasSignature /\ B64Decode(ReceivedSignature.s).ok /\ pc # "step4")
  => /\ Len(events) >= 4
     /\ events[4] = Signing("payer", B64Decode(ReceivedSignature.s).bytes)
     /\ Get(access_token, K_signature, JNull)
          = JStr(B64Encode(Sign("payer", B64Decode(ReceivedSignature.s).bytes)))
     /\ Without(access_token, K_signature) = Without(ReceivedToken, K_signature)
     /\ Get(access_token, K_signableEntity, JNull) = ReceivedEntity

\* Step 4 has signed a token that already had a top-level signature.
TokenSignatureStoredTopLevelWitness ==
  /\ pc = "serialize"
  /\ TokenReceived /\ TokenHasSignature
  /\ HasKey(ReceivedToken, K_signature)
  /\ access_token # ReceivedToken

\* C8: a token with no signableEntity, no signableEntity.signature or an
\* empty one is not signed, and the credential encodes the token exactly as
\* the server sent it.
UnsignedTokenSerializedAsReturned ==
  (/\ TokenReceived
   /\ \/ ~HasKey(ReceivedToken, K_signableEntity)
      \/ ReceivedEntity.t = "obj" /\ ~HasKey(ReceivedEntity, K_signature)
      \/ ReceivedEntity.t = "obj" /\ ReceivedSignature = JStr(<<>>)
   /\ pc # "step4")
  => /\ SignEvents = {2}
     /\ access_token = ReceivedToken
     /\ pc # "serialize" =>
          /\ encoded_token # <<>>
          /\ Loads(Unquote(encoded_token)).ok
          /\ Loads(Unquote(encoded_token)).v = ReceivedToken

\* A credential was returned for a token that has no signableEntity.
UnsignedTokenSerializedAsReturnedWitness ==
  /\ pc = "phase1"
  /\ TokenReceived
  /\ ~HasKey(ReceivedToken, K_signableEntity)
  /\ encoded_token # <<>>

\* C9 as stated: every purchase that returns a credential has signed exactly
\* twice, both times with the payer's key.
ExactlyTwoSignatures ==
  encoded_token # <<>>
  => /\ Cardinality(SignEvents) = 2
     /\ \A i \in SignEvents : events[i].key = "payer"

\* C9, amended: every purchase that returns a credential has signed the
\* decoded authorisation and, exactly when the token came with a non-empty
\* signableEntity.signature, the decoded token signature; it has signed
\* nothing else, and always with the payer's key.
SignaturesOfReturnedCredential ==
  encoded_token # <<>>
  => /\ SignEvents = IF TokenHasSignature THEN {2, 4} ELSE {2}
     /\ \A i \in SignEvents : events[i].key = "payer"
     /\ ReceivedAuth.t = "str"
     /\ events[2].msg = IF B64Decode(ReceivedAuth.s).ok
                        THEN B64Decode(ReceivedAuth.s).bytes
                        ELSE FromHex(ReceivedAuth.s).bytes
     /\ TokenHasSignature => events[4].msg = B64Decode(ReceivedSignature.s).bytes

\* A credential was returned after one signature only.
SignaturesOfReturnedCredentialWitness ==
  /\ encoded_token # <<>>
  /\ Cardinality(SignEvents) = 1

\* C10: percent-decoding the credential and parsing it as JSON gives the
\* finalized token back, and the credential holds nothing but unreserved
\* characters and percent escapes.
CredentialRoundTrips ==
  encoded_token # <<>>
  => /\ Loads(Unquote(encoded_token)).ok
     /\ Loads(Unquote(encoded_token)).v = access_token
     /\ \A i \in 1..Len(encoded_token) :
          \/ IsUnreserved(encoded_token[i])
          \/ /\ encoded_token[i] = "%"
             /\ i + 2 <= Len(encoded_token)
             /\ IsHexDigit(encoded_token[i + 1])
             /\ IsHexDigit(encoded_token[i + 2])

\* A credential of a token one of whose texts holds a backslash, a quote
\* and a percent sign.
CredentialRoundTripsWitness ==
  /\ encoded_token # <<>>
  /\ Get(access_token, K_id, JNull) = JStr(<< "\\", "\"", "%" >>)

(***************************************************************************)
(* Properties of the two activation phases                                 *)
(***************************************************************************)

ActivationPosts == {i \in 1..Len(events) : IsPost(events[i], "activate-account")}

\* The phase-1 request is the first request to the activation endpoint.
Phase1Index == CHOOSE i \in ActivationPosts : \A j \in ActivationPosts : i <= j

Phase1Reply == events[Phase1Index].reply

\* Phase 1 was answered with a success status and a JSON object.
Phase1Succeeded ==
  /\ ActivationPosts # {}
  /\ Success2xx(events[Phase1Index].status)
  /\ Phase1Reply.t = "obj"

\* The object has the field, with a value.
Contains(o, k) == HasKey(o, k) /\ Get(o, k, JNull) # JNull

ContainsAllThree(o) ==
  /\ Contains(o, K_ticket)
  /\ Contains(o, K_trustlineTransactionXdr)
  /\ Contains(o, K_trustlineTransactionHash)

\* Signatures made with the new account's key.
NewAccountSignings == {i \in SignEvents : events[i].key = "new_account"}

\* Activation requests that carry a ticket or a raw signature.
Phase2Posts ==
  {i \in ActivationPosts :
     HasKey(events[i].body, K_ticket) \/ HasKey(events[i].body, K_rawSignature)}

IncompleteTicketEndsWithoutTrustlines ==
  (/\ Phase1Succeeded
   /\ ~ContainsAllThree(Phase1Reply)
   /\ pc \notin {"Phase1Requested", "Phase1Complete"})
  => /\ pc = "Done"
     /\ outcome = "Account created but trustlines not available"
     /\ error = "none"
     /\ Phase2Posts = {}
     /\ NewAccountSignings = {}

ReceivedHash == Get(Phase1Reply, K_trustlineTransactionHash, JNull)

\* C18: the payer's key signs the decoded authorisation (second event) and
\* the decoded token signature (fourth event) and nothing else; whatever is
\* signed after phase 1 is the hex-decoded trustlineTransactionHash, signed
\* with the new account's key, which signs nothing else.
KeysNeverCrossed ==
  \A i \in SignEvents :
    LET e == events[i] IN
    /\ e.key \in {"payer", "new_account"}
    /\ e.key = "payer" =>
         \/ i = 2 /\ e.msg = AuthBytes(ReceivedAuth.s).bytes
         \/ i = 4 /\ TokenReceived /\ e.msg = B64Decode(ReceivedSignature.s).bytes
    /\ e.key = "new_account" =>
         /\ ActivationPosts # {} /\ i > Phase1Index
         /\ ReceivedHash.t = "str"
         /\ e.msg = FromHex(ReceivedHash.s).bytes
    /\ (ActivationPosts # {} /\ i > Phase1Index) => e.key = "new_account"

\* Both keys have signed, the new account's key a hash of one byte.
KeysNeverCrossedWitness ==
  /\ Cardinality({i \in SignEvents : events[i].key = "payer"}) = 2
  /\ \E i \in NewAccountSignings : events[i].msg = << 170 >>
  /\ pc = "Phase2Signed"

\* The phase-2 request, once sent, got no success response.
Phase2SubmissionFailed ==
  /\ Phase1Succeeded
  /\ \E i \in Phase2Posts : ~Success2xx(events[i].status)
  /\ pc # "Phase2Submitted"

\* C19: after a successful phase 1, a phase-2 submission that fails, by a
\* non-success response or by a network failure or timeout, ends the run in
\* Phase2Failed with the report that phase 1 succeeded and the account
\* exists; there is one phase-2 request and one phase-1 request.
Phase2FailureReportsPhase1 ==
  Phase2SubmissionFailed
  => /\ pc = "Phase2Failed"
     /\ outcome = "Phase 2 failed. Phase 1 succeeded - account exists with XLM"
     /\ Cardinality(Phase2Posts) = 1
     /\ Cardinality(ActivationPosts) = 2

\* The state of the activation a position of main stands for; every exit
\* by an error is Aborted.
ActivationState(p) ==
  IF p \in {"step1", "step2", "step3", "step4", "serialize", "phase1"} THEN "Start"
  ELSE IF p \in {"error", "Phase1Failed"} THEN "Aborted"
  ELSE p

ActivationTransitions ==
  { << "Start", "Start" >>, << "Start", "Phase1Requested" >>,
    << "Phase1Requested", "Phase1Complete" >>,
    << "Phase1Complete", "Done" >>, << "Phase1Complete", "Phase2Pending" >>,
    << "Phase2Pending", "Phase2Signed" >>,
    << "Phase2Signed", "Phase2Submitted" >>,
    << "Phase2Submitted", "Done" >>, << "Phase2Submitted", "Phase2Failed" >> }
  \cup { << from, "Aborted" >> :
           from \in {"Start", "Phase1Requested", "Phase1Complete", "Phase2Pending",
                     "Phase2Signed"} }

\* One step of main, as a pair of activation states.
ActivationStep ==
  << ActivationState(pc), ActivationState(pc') >> \in ActivationTransitions

StatusPosts == {i \in 1..Len(events) : IsPost(events[i], "get-transaction-status")}

UnknownOutcome == "WARNING: Transaction status unknown after 20 attempts"

\* What is reported for the status of a terminal response.
OutcomeOf(body) ==
  IF Lower(Get(body, K_status, JNull).s) = T_success
  THEN "SUCCESS! Transaction confirmed!" ELSE "ERROR: Transaction failed"

\* The poll has ended by reporting an outcome, not by an exception.
PollReported == pc = "Done" /\ StatusPosts # {}

\* C11: whatever the server answers, the log of one poll holds at most
\* maxAttempts (20) status requests.
AtMostMaxAttemptsRequests == Cardinality(StatusPosts) <= MaxAttempts

\* The twentieth status request has been sent.
AtMostMaxAttemptsRequestsWitness ==
  /\ Cardinality(StatusPosts) = MaxAttempts
  /\ pc = "poll"

\* C12: a poll that ends by reporting ends with unknown exactly when none
\* of its responses carried success or failed, and then all maxAttempts
\* requests were sent and answered; a terminal status in the last response
\* is reported as that status; unknown is reported only at the end of the
\* poll and is not the report of a failed transaction.
UnknownExactlyWithoutTerminal ==
  /\ PollReported => (outcome = UnknownOutcome <=> terminals = 0)
  /\ outcome = UnknownOutcome =>
       /\ pc = "Done"
       /\ Cardinality(StatusPosts) = MaxAttempts
       /\ answered = MaxAttempts
       /\ ~CarriesTerminal(status)
  /\ (answered = MaxAttempts /\ CarriesTerminal(status)) =>
       /\ pc = "Done"
       /\ outcome = OutcomeOf(status)
       /\ outcome # UnknownOutcome

\* Nineteen responses without a terminal status, then success with a ledger
\* in the twentieth.
UnknownExactlyWithoutTerminalWitness ==
  /\ answered = MaxAttempts
  /\ terminals = 1
  /\ status = JObj(<< Member(K_status, JStr(T_success)), Member(K_ledger, JNum(12345)) >>)
  /\ outcome = "SUCCESS! Transaction confirmed!"

\* C13: at most one response with status success or failed is ever received;
\* it is the last response, it ends the poll, its status is the outcome
\* reported, and the request it answers is the last event of the run: no
\* request and no sleep follows.
PollStopsAtFirstTerminal ==
  /\ terminals <= 1
  /\ terminals = 1 =>
       /\ CarriesTerminal(status)
       /\ pc = "Done"
       /\ outcome = OutcomeOf(status)
       /\ Cardinality(StatusPosts) = answered
       /\ Len(events) \in StatusPosts

\* A failed status in the third response ended the poll.
PollStopsAtFirstTerminalWitness ==
  /\ terminals = 1
  /\ answered = 3
  /\ status = JObj(<< Member(K_status, JStr(T_failed)) >>)
  /\ pc = "Done"

\* C14: every status request directly follows a sleep of the poll interval
\* (2 s), so no two status requests are sent without a sleep between them.
SleepBeforeEveryStatusRequest ==
  \A i \in StatusPosts :
    /\ i > 1
    /\ events[i - 1].op = "sleep"
    /\ events[i - 1].seconds >= 2

\* Three status requests have been sent.
SleepBeforeEveryStatusRequestWitness ==
  /\ Cardinality(StatusPosts) = 3
  /\ answered = 3

\* The last status request got no response, or one that is not a success.
StatusRequestFailed ==
  /\ StatusPosts # {}
  /\ pc # "check"
  /\ \/ error = "RequestException"
     \/ response.status # 0 /\ ~Success2xx(response.status)

\* C15: a status request that fails, by a non-success response or with no
\* response at all, ends the poll at once with an error: that request is
\* the last event, nothing is reported as outcome.
StatusFailureAborts ==
  StatusRequestFailed
  => /\ pc = "error"
     /\ error = "RequestException"
     /\ outcome = "none"
     /\ Len(events) \in StatusPosts

(***************************************************************************)
(* The basic activation example                                            *)
(***************************************************************************)

\* The body of a phase-1 request: the public key and nothing else.
PublicKeyOnly == JObj(<< Member(K_publicKey, JStr(NewAccountPublicKey)) >>)

\* C21: the basic activation example is phase 1 only. Whatever the response
\* (one carrying ticket, trustlineTransactionXdr and trustlineTransactionHash
\* included), it sends at most one request to the activation endpoint,
\* exactly one once the request has been made, with the public key as its
\* whole body; it never signs with the new account's key and never sends a
\* ticket or a rawSignature.
BasicIsPhase1Only ==
  /\ Cardinality(ActivationPosts) <= 1
  /\ (pc \in {"Done", "error"} /\ encoded_token # <<>>) => Cardinality(ActivationPosts) = 1
  /\ \A i \in ActivationPosts : events[i].body = PublicKeyOnly
  /\ NewAccountSignings = {}
  /\ Phase2Posts = {}

\* The run has ended after a success response that offers phase 2.
BasicIsPhase1OnlyWitness ==
  /\ pc = "Done"
  /\ outcome = "SUCCESS! Account activated (Phase 1 complete)"
  /\ Success2xx(response.status)
  /\ ContainsAllThree(response.body)
  /\ Cardinality(ActivationPosts) = 1

(***************************************************************************)
(* The catalog and the choice of the route                                 *)
(***************************************************************************)

\* The route ids the four examples look for.
RouteIds == {ActivateRouteId, SubmitRouteId, StatusRouteId, RpcRouteId}

\* The catalog has been fetched.
CatalogFetched ==
  /\ pc # "quotes"
  /\ Len(events) >= 1
  /\ events[1].op = "get"
  /\ quotes = events[1].reply

\* The quotes of the catalog, none when the body has no list.
Offered == Get(quotes, K_quotes, JArr(<<>>)).m

\* The catalog is an object whose list, if any, holds objects whose
\* signableEntity, if any, is an object whose routeId, if any, is a text.
WellTypedCatalog ==
  /\ quotes.t = "obj"
  /\ Get(quotes, K_quotes, JArr(<<>>)).t = "arr"
  /\ \A i \in 1..Len(Offered) :
       /\ Offered[i].t = "obj"
       /\ Get(Offered[i], K_signableEntity, JObj(<<>>)).t = "obj"
       /\ Get(Get(Offered[i], K_signableEntity, JObj(<<>>)), K_routeId, JStr(<<>>)).t = "str"

\* The quote has a signableEntity with a routeId that contains the text.
OffersRoute(quote, sub) ==
  /\ HasKey(quote, K_signableEntity)
  /\ HasKey(Get(quote, K_signableEntity, JNull), K_routeId)
  /\ IsSubstring(sub, Get(Get(quote, K_signableEntity, JNull), K_routeId, JNull).s)

\* The places of the catalog that offer the route.
Offers(sub) == {i \in 1..Len(Offered) : OffersRoute(Offered[i], sub)}

\* C22: on the fetched catalog find_quote_by_route_id raises nothing and
\* returns the first quote in the server's order whose signableEntity.routeId
\* contains the text looked for; it returns None when no quote has such a
\* routeId, in particular for an empty or missing list and for quotes
\* without signableEntity or without routeId. The route main goes on with
\* is that first quote.
FirstMatchInServerOrder ==
  (CatalogFetched /\ WellTypedCatalog) =>
    /\ \A sub \in RouteIds :
         LET f == FindQuoteByRouteId(quotes, sub) IN
           /\ f.ok
           /\ f.found <=> Offers(sub) # {}
           /\ ~f.found => f.quote = JNull
           /\ f.found =>
                \E i \in Offers(sub) :
                  /\ f.quote = Offered[i]
                  /\ \A j \in Offers(sub) : i <= j
    /\ (pc = "step1" /\ after \in {"phase1", "activate"}) =>
         /\ Offers(ActivateRouteId) # {}
         /\ \E i \in Offers(ActivateRouteId) :
              route_quote = Offered[i] /\ \A j \in Offers(ActivateRouteId) : i <= j

\* Two quotes offer the activation route, the first of them under a longer
\* route id; main goes on with the first.
FirstMatchInServerOrderWitness ==
  /\ CatalogFetched /\ WellTypedCatalog
  /\ pc = "step1"
  /\ after = "phase1"
  /\ Cardinality(Offers(ActivateRouteId)) = 2
  /\ Offered[1] # Offered[2]
  /\ route_quote = Offered[1]
  /\ Get(Get(route_quote, K_signableEntity, JNull), K_routeId, JNull).s # ActivateRouteId

\* What main reports when a route is not in the catalog.
RouteNotFoundOutcomes ==
  { "ERROR: stablecoin-activate-account route not found",
    "ERROR: stellar-rpc-developer route not found",
    "ERROR: stablecoin-submit-classic-tx route not found",
    "ERROR: stablecoin-get-tx-status route not found" }

\* Requests of the purchase.
PurchasePosts ==
  {i \in 1..Len(events) :
     IsPost(events[i], "PurchaseInstruction") \/ IsPost(events[i], "Purchase")}

\* main has looked for its routes and has not gone on to a purchase.
EndedAtFind == CatalogFetched /\ pc \notin {"quotes", "find"} /\ after = "none"

\* C23: a flow whose route is not in the fetched catalog ends by reporting
\* that the route was not found (every quote of the catalog having a price),
\* which is no exception (a transport failure is one), after the catalog
\* request alone: no PurchaseInstruction or
\* Purchase request and no signature. The report names a route that is
\* missing. A purchase is begun only with the flow's route offered, and in
\* the payment example only with both the submit and the status route
\* offered.
RouteNotOfferedEndsRun ==
  /\ (EndedAtFind /\ WellTypedCatalog /\ \A i \in 1..Len(Offered) : HasPrice(Offered[i])) =>
       /\ pc = "Done"
       /\ outcome \in RouteNotFoundOutcomes
  /\ outcome \in RouteNotFoundOutcomes =>
       /\ pc = "Done" /\ error = "none"
       /\ Len(events) = 1 /\ events[1].op = "get"
       /\ PurchasePosts = {}
       /\ SignEvents = {}
       /\ encoded_token = <<>> /\ submit_token = <<>> /\ status_token = <<>>
  /\ error = "RequestException" => outcome \notin RouteNotFoundOutcomes
  /\ outcome = "ERROR: stablecoin-activate-account route not found" => Offers(ActivateRouteId) = {}
  /\ outcome = "ERROR: stellar-rpc-developer route not found" => Offers(RpcRouteId) = {}
  /\ outcome = "ERROR: stablecoin-submit-classic-tx route not found" => Offers(SubmitRouteId) = {}
  /\ outcome = "ERROR: stablecoin-get-tx-status route not found" => Offers(StatusRouteId) = {}
  /\ (PurchasePosts # {} \/ SignEvents # {}) =>
       /\ after \in {"phase1", "activate"} => Offers(ActivateRouteId) # {}
       /\ after = "rpc1" => Offers(RpcRouteId) # {}
       /\ after \in {"bought_submit", "bought_status"} =>
            Offers(SubmitRouteId) # {} /\ Offers(StatusRouteId) # {}
       /\ after # "none"

\* The payment example has ended because the status route is missing while
\* the submit route is offered.
RouteNotOfferedEndsRunWitness ==
  /\ pc = "Done"
  /\ outcome = "ERROR: stablecoin-get-tx-status route not found"
  /\ Offers(SubmitRouteId) # {}
  /\ Offers(StatusRouteId) = {}
  /\ PurchasePosts = {}

(***************************************************************************)
(* Statuses                                                                *)
(***************************************************************************)

\* The endpoints of the core.
CoreEndpoints ==
  { "quote", "PurchaseInstruction", "Purchase", "submit-transaction",
    "get-transaction-status", "activate-account" }

\* A response came back and its status is outside 200-299.
NonSuccess(st) == st >= 100 /\ ~Success2xx(st)

\* The run has stopped at a failed call: an exception, or a report of the
\* failure; Phase1Requested and Phase2Submitted hold the response before
\* main has looked at it.
StoppedAtFailure ==
  \/ pc \in {"error", "Phase1Failed", "Phase2Failed", "Phase1Requested", "Phase2Submitted"}
  \/ pc = "Done" /\ outcome = "ERROR: Activation failed"

\* C24: a response of a core endpoint whose status is outside 200-299 ends
\* the operation: the request it answers is the last thing the run did, and
\* the run has stopped with a failure, so the body is not used.
SuccessIsExactly2xx ==
  /\ \A i \in 1..Len(events) :
       (/\ events[i].op \in {"get", "post"}
        /\ events[i].endpoint \in CoreEndpoints
        /\ NonSuccess(events[i].status))
       => i = Len(events) /\ StoppedAtFailure
  /\ (/\ Len(events) >= 1
      /\ IsPost(events[Len(events)], "get-transaction-status")
      /\ NonSuccess(response.status))
     => pc = "error"

\* The calls of the passthrough.
RpcPosts == {i \in 1..Len(events) : IsPost(events[i], "rpc")}

\* C25: a response to a passthrough call whose status is outside 200-299
\* ends the run with an error, and the final success is reported only after
\* three calls that were all answered with a 2xx status.
RpcFailureSurfaced ==
  /\ \A i \in RpcPosts :
       NonSuccess(events[i].status) => i = Len(events) /\ pc = "error"
  /\ outcome = "SUCCESS! RPC passthrough working correctly" =>
       /\ Cardinality(RpcPosts) = 3
       /\ \A i \in RpcPosts : Success2xx(events[i].status)

(***************************************************************************)
(* Credentials                                                             *)
(***************************************************************************)

\* The requests that need a credential, and the route each is sold under.
MeteredEndpoints == {"submit-transaction", "get-transaction-status", "activate-account", "rpc"}

RouteOf(endpoint) ==
  IF endpoint = "submit-transaction" THEN SubmitRouteId
  ELSE IF endpoint = "get-transaction-status" THEN StatusRouteId
  ELSE IF endpoint = "activate-account" THEN ActivateRouteId
  ELSE RpcRouteId

MeteredPosts ==
  {i \in 1..Len(events) : events[i].op = "post" /\ events[i].endpoint \in MeteredEndpoints}

\* The purchases that have returned: each with the quote it was called with
\* and the credential it returned.
CompletedPurchases == {j \in 1..Len(events) : events[j].op = "serialize"}

\* C26: every metered request carries in its header a credential that a
\* purchase for the route of its endpoint has returned before the request
\* was sent: the submit request the one bought with the submit quote, every
\* status request the one bought with the status quote, both activation
\* requests the one bought with the activation quote.
CredentialOfTheRoute ==
  \A i \in MeteredPosts :
    /\ events[i].header # <<>>
    /\ \E j \in CompletedPurchases :
         /\ j < i
         /\ OffersRoute(events[j].body, RouteOf(events[i].endpoint))
         /\ events[j].header = events[i].header

\* The payment example has sent a status request, and the two credentials
\* it bought are different.
CredentialOfTheRouteWitness ==
  /\ StatusPosts # {}
  /\ submit_token # status_token
  /\ \E i \in MeteredPosts : events[i].endpoint = "submit-transaction" /\ events[i].header = submit_token
  /\ events[Len(events)].header = status_token

(***************************************************************************)
(* The payment example                                                     *)
(***************************************************************************)

SubmitPosts == {i \in 1..Len(events) : IsPost(events[i], "submit-transaction")}

SleepEvents == {i \in 1..Len(events) : events[i].op = "sleep"}

\* The submit response is a success whose object has no transaction hash,
\* or an empty one.
SubmitWithoutHash ==
  \E i \in SubmitPosts :
    /\ Success2xx(events[i].status)
    /\ events[i].reply.t = "obj"
    /\ Get(events[i].reply, K_transactionHash, JStr(<<>>)) = JStr(<<>>)

\* C27: the payment example submits the transaction at most once, and only
\* after purchases for the submit route and for the status route have both
\* returned a credential; a success response to the submission that has no
\* transactionHash, or an empty one, ends the run with the report that the
\* submission failed, with no status request and no sleep.
SubmittedOnceAfterBothPurchases ==
  /\ Cardinality(SubmitPosts) <= 1
  /\ \A i \in SubmitPosts :
       /\ \E j \in CompletedPurchases : j < i /\ OffersRoute(events[j].body, SubmitRouteId)
       /\ \E j \in CompletedPurchases : j < i /\ OffersRoute(events[j].body, StatusRouteId)
       /\ submit_token # <<>> /\ status_token # <<>>
  /\ SubmitWithoutHash =>
       /\ pc = "Done"
       /\ outcome = "ERROR: Submit failed"
       /\ StatusPosts = {}
       /\ SleepEvents = {}
       /\ Len(events) \in SubmitPosts

\* The submission was answered 200 with an empty transactionHash.
SubmittedOnceAfterBothPurchasesWitness ==
  /\ SubmitWithoutHash
  /\ \E i \in SubmitPosts : HasKey(events[i].reply, K_transactionHash)
  /\ Cardinality(CompletedPurchases) = 2
  /\ pc = "Done"

(***************************************************************************)
(* A malformed authorisation                                               *)
(***************************************************************************)

\* Base64 as RFC 4648 writes it: groups of four characters of the alphabet,
\* the last group padded with at most two "=".
WellFormedBase64(text) ==
  /\ Len(text) > 0
  /\ Len(text) % 4 = 0
  /\ \A i \in 1..Len(text) :
       \/ IsB64Char(text[i])
       \/ /\ text[i] = "="
          /\ i >= Len(text) - 1
          /\ \A j \in i..Len(text) : text[j] = "="

\* C28: with an authorisationToSign that is not empty and is neither base64
\* nor hex, the purchase ends with an error before anything is signed and
\* before any request to Purchase.
MalformedAuthorisationAborts ==
  (/\ InstructionReceived
   /\ ReceivedAuth.t = "str"
   /\ ReceivedAuth.s # <<>>
   /\ ~WellFormedBase64(ReceivedAuth.s)
   /\ ~WellFormedHex(ReceivedAuth.s)
   /\ pc # "step2")
  => /\ Len(events) = 1
     /\ pc = "error"

(***************************************************************************)
(* Termination                                                             *)
(***************************************************************************)

\* main has returned: after a report, or through one of its except clauses.
Terminated ==
  /\ pc \in {"Done", "error", "Phase1Failed", "Phase2Failed"}
  /\ outcome # "none" \/ error # "none"

\* The requests to one endpoint.
PostsTo(endpoint) == {i \in 1..Len(events) : IsPost(events[i], endpoint)}

\* Apart from the status query no request is sent a second time: one catalog
\* and one account fetch, one PurchaseInstruction per purchase and one
\* Purchase per PurchaseInstruction, one submission, one request per
\* activation phase, one call per RPC method; the poll sleeps and asks at
\* most MaxAttempts times.
NothingRepeated ==
  /\ Cardinality({i \in 1..Len(events) : events[i].op = "get" /\ events[i].endpoint = "quote"}) <= 1
  /\ Cardinality({i \in 1..Len(events) : events[i].op = "get" /\ events[i].endpoint = "accounts"}) <= 1
  /\ \A i, j \in PostsTo("PurchaseInstruction") : events[i].body = events[j].body => i = j
  /\ Cardinality(PostsTo("PurchaseInstruction")) <= Cardinality(CompletedPurchases) + 1
  /\ \A i, j \in PostsTo("Purchase") :
       i < j => \E k \in PostsTo("PurchaseInstruction") : i < k /\ k < j
  /\ Cardinality(PostsTo("Purchase")) <= Cardinality(PostsTo("PurchaseInstruction"))
  /\ Cardinality(SubmitPosts) <= 1
  /\ \A i, j \in ActivationPosts \cup RpcPosts : events[i].body = events[j].body => i = j
  /\ Cardinality(ActivationPosts) <= 2
  /\ Cardinality(RpcPosts) <= 3
  /\ Cardinality(StatusPosts) <= MaxAttempts
  /\ Cardinality(SleepEvents) <= MaxAttempts
  /\ attempt <= MaxAttempts

\* C29: with every network call returning a response or failing, every run
\* of the four examples ends, after a report or an error, and stays ended;
\* on the way no request but the status query is repeated, and the poll
\* makes at most MaxAttempts iterations.
EveryRunTerminates == []NothingRepeated /\ <>[]Terminated

\* The payment example has gone through all iterations of the poll and has
\* ended.
EveryRunTerminatesWitness ==
  /\ Terminated
  /\ attempt = MaxAttempts
  /\ Cardinality(StatusPosts) = MaxAttempts
  /\ outcome = "WARNING: Transaction status unknown after 20 attempts"

(***************************************************************************)
(* C30: what leaves the client                                             *)
(***************************************************************************)

\* The requests of the log: GET and POST.
RequestEvents == {i \in 1..Len(events) : events[i].op \in {"get", "post"}}

\* The secret seeds of the two keypairs.
Secrets == {PayerSecret, NewAccountSecret}

\* What a request puts on the wire: the apicharge header and the JSON body.
RequestText(e) == e.header \o Dumps(e.body)

\* The signatures made so far, as the requests carry them.
SignaturesMade ==
  {B64Encode(Sign(events[k].key, events[k].msg)) : k \in {j \in 1..Len(events) : events[j].op = "sign"}}

\* C30: no request of any flow holds a secret seed of the payer or of the
\* new account, in its header or in its body; where a request names an
\* account it names it by the public key, and a raw signature it carries is
\* one the signer produced.
NoSecretInRequests ==
  /\ \A i \in RequestEvents : \A secret \in Secrets :
       ~IsSubstring(secret, RequestText(events[i]))
  /\ \A i \in PostsTo("PurchaseInstruction") :
       Get(events[i].body, K_clientPublicKey, JNull) = JStr(<< "G" >> \o Tail(PayerSecret))
  /\ \A i \in PostsTo("activate-account") :
       /\ Get(events[i].body, K_publicKey, JNull) = JStr(<< "G" >> \o Tail(NewAccountSecret))
       /\ HasKey(events[i].body, K_rawSignature) =>
            /\ Get(events[i].body, K_rawSignature, JNull).t = "str"
            /\ Get(events[i].body, K_rawSignature, JNull).s \in SignaturesMade

\* The full activation has sent its phase-2 request: the purchase named the
\* payer, both keys have signed, and the request carries the credential, the
\* new account and its raw signature.
NoSecretInRequestsWitness ==
  /\ PostsTo("PurchaseInstruction") # {}
  /\ \E k \in 1..Len(events) : events[k].op = "sign" /\ events[k].key = "payer"
  /\ \E k \in 1..Len(events) : events[k].op = "sign" /\ events[k].key # "payer"
  /\ \E i \in PostsTo("activate-account") :
       /\ HasKey(events[i].body, K_rawSignature)
       /\ events[i].header # <<>>

====
